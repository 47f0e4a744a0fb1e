---------------------------- MODULE Connectivity ----------------------------
(***************************************************************************)
(* How one attempt finds a path (internal/connectivity and the driver's    *)
(* verifyPath): it gathers its own addresses, asks STUN observers over the *)
(* socket it will be probed on, takes the peer's candidates into the       *)
(* engine, and probes them with challenges until one answers from the very *)
(* address that was probed.                                                *)
(*                                                                         *)
(* The observers, the network and the peer's checker are external: any     *)
(* datagram may be lost, late or out of order, an answer may come back     *)
(* from another address than the one probed, and datagrams that do not     *)
(* authenticate arrive too.  A nonce is named by the candidate and the     *)
(* attempt it was drawn for, as it is never drawn twice.                   *)
(***************************************************************************)
EXTENDS Naturals, Sequences, FiniteSets

CONSTANTS
    Addr,            \* address and port
    Ip,              \* each one's base: its related address, or its own
    Unsafe, Private, V6,
    Interface,       \* the addresses the host's interfaces may have
    StaticEndpoint,  \* GatherPolicy, None for none
    AllowPrivate, AllowIPv6,
    Servers,         \* GatherPolicy.Observers, a sequence
    Mapping,         \* external: what each server sees
    Offers,          \* what the peer may publish: sequences of wire candidates
    PeerAddr,        \* external: where the peer's socket is reached
    Sources,         \* external: where its datagrams come from, by where
                     \* it was reached
    MaxCandidates, MaxThirdParty, MaxAttempts,
    Kept,            \* capacity of UDPTransport.probes (8)
    Buffer,          \* capacity of the checker's channel (16)
    MaxUnasked,      \* bound: datagrams that answer nothing
    None

ASSUME ConnectivityAssumption ==
    /\ Unsafe \subseteq Addr /\ Private \subseteq Addr /\ V6 \subseteq Addr
    /\ Interface \subseteq Addr /\ PeerAddr \subseteq Addr
    /\ Sources \in [PeerAddr -> SUBSET Addr]
    /\ StaticEndpoint \in Addr \cup {None}
    /\ Len(Servers) \in Nat /\ Mapping \in [1..Len(Servers) -> Addr]
    /\ \A offer \in Offers : Len(offer) \in Nat /\ \A i \in 1..Len(offer) : offer[i].addr \in Addr
    /\ MaxCandidates \in Nat /\ MaxThirdParty \in Nat /\ MaxAttempts \in Nat \ {0}
    /\ Kept \in Nat /\ Buffer \in Nat \ {0} /\ MaxUnasked \in Nat
    /\ None \notin Addr

VARIABLES
    pc,           \* how far verifyPath is
    local,        \* the addresses gathered directly
    srv,          \* the observer being asked
    asked,        \* external: the observers a query was sent to
    found,        \* the address each observer's answer gave
    cands,        \* Engine.candidates
    nominated,    \* Engine.nominated
    outstanding,  \* Checker.outstanding
    net,          \* datagrams on their way, or in the socket
    kept,         \* UDPTransport.probes
    queue,        \* the channel from receive to Run
    late,         \* the engine's TotalTimeout has passed
    ended,        \* the context of Run has ended
    answers,      \* history, external: the responses the peer sent
    unasked       \* datagrams so far that answer nothing

gatherVars == <<local, srv, asked, found>>
engineVars == <<cands, nominated, outstanding>>
wireVars   == <<net, kept, queue, answers, unasked>>
timeVars   == <<late, ended>>
vars == <<pc, gatherVars, engineVars, wireVars, timeVars>>
-----------------------------------------------------------------------------
Kind == {"host", "static", "srflx", "prflx"}

RequiresThirdParty(kind) == kind \in {"srflx", "prflx"}

Status == {"unverified", "probing", "valid", "failed"}

(* The wire types that candidateKinds maps, each to the kind of its name.  *)
CandidateKinds == {"host", "srflx", "static"}

(* ValidateAddress                                                         *)
Safe(a) == a \notin Unsafe

ThirdParty(cs) == {id \in DOMAIN cs : RequiresThirdParty(cs[id].kind)}

Datagrams(kind) == {d \in net : d.kind = kind}

(* A candidate of the peer's has the id it was published with, a learnt    *)
(* one that of its address.                                                *)
WireIds == UNION {{offer[i].id : i \in 1..Len(offer)} : offer \in Offers}

Id == ({"wire"} \X WireIds) \cup ({"prflx"} \X Addr)

ASSUME NoneAssumption == None \notin Id

Nonce == Id \X (1..MaxAttempts)

Datagram ==
    [kind : {"stun"}, txn : 1..Len(Servers), addr : Addr]
        \cup [kind : {"response"}, nonce : Nonce, from : Addr]
        \cup [kind : {"challenge", "noise"}, from : Addr]

(* The engine's candidates: none at an address that is not safe, and no    *)
(* more, of both sorts, than it admits.                                    *)
Candidates(cs) ==
    /\ DOMAIN cs \subseteq Id /\ IsFiniteSet(DOMAIN cs)
    /\ cs \in [DOMAIN cs ->
            [kind : Kind, addr : Addr \ Unsafe, status : Status, attempts : 0..MaxAttempts]]
    /\ Cardinality(DOMAIN cs) <= MaxCandidates
    /\ Cardinality(ThirdParty(cs)) <= MaxThirdParty

TypeOK ==
    /\ pc \in {"gather", "observe", "awaitStun", "publish", "candidates", "loop", "wait",
               "done", "failed"}
    /\ local \subseteq Addr
    /\ srv \in 1..Len(Servers) + 1 /\ asked \subseteq 1..Len(Servers)
    /\ found \in [1..Len(Servers) -> Addr \cup {None}]
    /\ Candidates(cands)
    /\ nominated \in DOMAIN cands \cup {None}
    /\ outstanding \subseteq (DOMAIN cands) \X (1..MaxAttempts)
    /\ net \subseteq Datagram
    /\ kept \in Seq(Datagram) /\ Len(kept) <= Kept
    /\ queue \in Seq(Datagram) /\ Len(queue) <= Buffer
    /\ answers \subseteq [nonce : Nonce, to : Addr, from : Addr]
    /\ late \in BOOLEAN /\ ended \in BOOLEAN /\ unasked \in 0..MaxUnasked

Init ==
    /\ pc = "gather" /\ local = {} /\ srv = 1 /\ asked = {}
    /\ found = [i \in 1..Len(Servers) |-> None]
    /\ cands = <<>> /\ nominated = None /\ outstanding = {}
    /\ net = {} /\ kept = <<>> /\ queue = <<>>
    /\ late = FALSE /\ ended = FALSE /\ answers = {} /\ unasked = 0
-----------------------------------------------------------------------------
(* Gatherer.Gather, in the default order; port mapping and recent          *)
(* endpoints are not implemented and yield nothing.                        *)

(* gatherInterfaces                                                        *)
Hosts(up) == {a \in up : /\ a \in V6 => AllowIPv6
                         /\ a \in Private => AllowPrivate
                         /\ Safe(a)}

(* gatherStatic                                                            *)
Statics == {StaticEndpoint} \ (Unsafe \cup {None})

(* sufficient: one address that is not private ends the search.            *)
Sufficient(addrs) == \E a \in addrs : a \notin Private

Gather(up) ==
    /\ pc = "gather"
    /\ LET direct == IF Sufficient(Hosts(up)) THEN Hosts(up) ELSE Hosts(up) \cup Statics
           enough == Sufficient(Hosts(up)) \/ (Statics # {} /\ Sufficient(direct))
       IN  /\ local' = direct
           /\ pc' = IF enough THEN "publish" ELSE "observe"
    /\ UNCHANGED <<srv, asked, found, engineVars, wireVars, timeVars>>

(* gatherFromObservers: the next server, which SharedObserver.Observe      *)
(* sends a query with a fresh transaction, or cannot reach.                *)
Observe ==
    /\ pc = "observe" /\ srv <= Len(Servers)
    /\ \/ pc' = "awaitStun" /\ asked' = asked \cup {srv} /\ UNCHANGED srv
       \/ srv' = srv + 1 /\ UNCHANGED <<pc, asked>>
    /\ UNCHANGED <<local, found, engineVars, wireVars, timeVars>>

\* Mutant: an answer is taken for that of the query under way.
AnyTransaction(d) == TRUE

(* parseSTUNResponse: an answer counts when it is to this query.           *)
Answers(d) == d.txn = srv

(* ReceiveSTUN returns a STUN datagram; awaitResponse reads on when it is  *)
(* not the answer, or the address cannot be used.  An address another      *)
(* observer saw is not offered twice.                                      *)
ReceiveSTUN(d) ==
    /\ pc = "awaitStun" /\ d \in Datagrams("stun")
    /\ net' = net \ {d}
    /\ LET usable == Answers(d) /\ Safe(d.addr)
           known  == \E i \in DOMAIN found : found[i] = d.addr
       IN  /\ found' = IF usable /\ ~known THEN [found EXCEPT ![srv] = d.addr] ELSE found
           /\ srv' = IF usable THEN srv + 1 ELSE srv
           /\ pc' = IF usable THEN "observe" ELSE pc
    /\ UNCHANGED <<local, asked, engineVars, kept, queue, answers, unasked, timeVars>>

(* dispatchProbe: a probe that comes while the observer reads is kept,     *)
(* while there is room.                                                    *)
DispatchProbe(d) ==
    /\ pc = "awaitStun" /\ d \in net \ Datagrams("stun")
    /\ net' = net \ {d}
    /\ kept' = IF Len(kept) < Kept THEN Append(kept, d) ELSE kept
    /\ UNCHANGED <<pc, gatherVars, engineVars, queue, answers, unasked, timeVars>>

(* The query's time is over.                                               *)
ObserveTimeout ==
    /\ pc = "awaitStun"
    /\ pc' = "observe" /\ srv' = srv + 1
    /\ UNCHANGED <<local, asked, found, engineVars, wireVars, timeVars>>

GatherDone ==
    /\ pc = "observe" /\ srv > Len(Servers)
    /\ pc' = "publish"
    /\ UNCHANGED <<gatherVars, engineVars, wireVars, timeVars>>
-----------------------------------------------------------------------------
(* The candidates.                                                         *)

(* verifyPath publishes what was gathered (toWireAll), or fails; it is not *)
(* looked at again.                                                        *)
PublishCandidates ==
    /\ pc = "publish"
    /\ pc' \in {"candidates", "failed"}
    /\ local' = {} /\ found' = [i \in DOMAIN found |-> None]
    /\ UNCHANGED <<srv, asked, engineVars, wireVars, timeVars>>

Candidate(kind, addr) ==
    [kind |-> kind, addr |-> addr, status |-> "unverified", attempts |-> 0]

\* Mutant: the limit on what others suggest is not applied.
AddUncounted(cs, id, kind, addr) ==
    IF Safe(addr) /\ id \notin DOMAIN cs /\ Cardinality(DOMAIN cs) < MaxCandidates
    THEN [i \in DOMAIN cs \cup {id} |-> IF i = id THEN Candidate(kind, addr) ELSE cs[i]]
    ELSE cs

(* Engine.AddCandidate: what it refuses, or knows, changes nothing.        *)
AddCandidate(cs, id, kind, addr) ==
    IF /\ Safe(addr) /\ id \notin DOMAIN cs
       /\ Cardinality(DOMAIN cs) < MaxCandidates
       /\ RequiresThirdParty(kind) => Cardinality(ThirdParty(cs)) < MaxThirdParty
    THEN [i \in DOMAIN cs \cup {id} |-> IF i = id THEN Candidate(kind, addr) ELSE cs[i]]
    ELSE cs

(* toConnectivity, then the engine.                                        *)
AddWire(cs, w) ==
    IF w.type \in CandidateKinds THEN AddCandidate(cs, <<"wire", w.id>>, w.type, w.addr) ELSE cs

(* The loop of consumePeerCandidates over what the peer offers.            *)
AddAll(cs, offer) ==
    LET taken[k \in 0..Len(offer)] == IF k = 0 THEN cs ELSE AddWire(taken[k - 1], offer[k])
    IN  taken[Len(offer)]

(* consumePeerCandidates: it fails when none was taken.                    *)
ConsumePeerCandidates(offer) ==
    /\ pc = "candidates"
    /\ cands' = AddAll(cands, offer)
    /\ pc' = IF DOMAIN cands' = {} THEN "failed" ELSE "loop"
    /\ UNCHANGED <<gatherVars, nominated, outstanding, wireVars, timeVars>>

(* The peer sends nothing in time.                                         *)
CandidatesTimeout ==
    /\ pc = "candidates"
    /\ pc' = "failed"
    /\ UNCHANGED <<gatherVars, engineVars, wireVars, timeVars>>
-----------------------------------------------------------------------------
(* Checker.Run.                                                            *)

\* Mutant: a candidate that was probed is not probed again.
CanProbeOnce(id) == cands[id].status = "unverified" /\ ~late /\ cands[id].attempts < MaxAttempts

(* Candidate.CanProbe; a candidate lives as long as the engine's timeout.  *)
CanProbe(id) ==
    cands[id].status # "valid" /\ ~late /\ cands[id].attempts < MaxAttempts

CanProbes == {id \in DOMAIN cands : CanProbe(id)}

(* foundationFor.  Ip stands for the base it takes: the related address    *)
(* the peer published with a candidate, or else the candidate's own.       *)
Foundation(id) == <<cands[id].kind, Ip[cands[id].addr]>>

(* Probable: one candidate of each foundation, whichever the map yields.   *)
Probable(ids) ==
    /\ ids \subseteq CanProbes
    /\ \A i, j \in ids : Foundation(i) = Foundation(j) => i = j
    /\ \A i \in CanProbes : \E j \in ids : Foundation(i) = Foundation(j)

(* The ends of Run, in the order they are looked for: the context, a       *)
(* nominated candidate, exhaustion and timeout.                            *)
Return ==
    /\ pc = "loop"
    /\ \/ ended /\ pc' = "failed"
       \/ ~ended /\ nominated # None /\ pc' = "done"
       \/ /\ ~ended /\ nominated = None
          /\ CanProbes = {} \/ late \/ Probable({})
          /\ pc' = "failed"
    /\ UNCHANGED <<gatherVars, engineVars, wireVars, timeVars>>

\* Mutant: an attempt that is not answered is not counted.
RecordUncounted(c) == [c EXCEPT !.status = "probing"]

(* Engine.RecordAttempt                                                    *)
RecordAttempt(c) == [c EXCEPT !.attempts = @ + 1, !.status = "probing"]

(* Engine.RecordFailure                                                    *)
RecordFailure(c) == [c EXCEPT !.status = IF c.attempts >= MaxAttempts THEN "failed" ELSE "unverified"]

\* Mutant: a candidate has one challenge, its latest.
OutstandLatest(ids) ==
    {o \in outstanding : o[1] \notin ids} \cup {<<id, cands[id].attempts + 1>> : id \in ids}

(* sendChallenge, for those that could be sent.                            *)
Outstand(ids) == outstanding \cup {<<id, cands[id].attempts + 1>> : id \in ids}

(* A round: every probable candidate is sent a challenge, or sending to it *)
(* fails.                                                                  *)
ProbeRound(ids, lost) ==
    /\ pc = "loop" /\ ~ended /\ nominated = None /\ ~late
    /\ ids # {} /\ Probable(ids) /\ lost \subseteq ids
    /\ cands' = [id \in DOMAIN cands |->
          CASE id \in lost       -> RecordFailure(RecordAttempt(cands[id]))
            [] id \in ids \ lost -> RecordAttempt(cands[id])
            [] OTHER             -> cands[id]]
    /\ outstanding' = Outstand(ids \ lost)
    /\ pc' = "wait"
    /\ UNCHANGED <<gatherVars, nominated, wireVars, timeVars>>

(* UDPTransport.Receive and the checker's receive: what was kept comes     *)
(* first, and STUN answers nobody waits for go nowhere.                    *)
Receive ==
    /\ pc \in {"loop", "wait"} /\ ~ended /\ Len(queue) < Buffer
    /\ \/ /\ kept # <<>>
          /\ queue' = Append(queue, Head(kept)) /\ kept' = Tail(kept)
          /\ UNCHANGED net
       \/ /\ kept = <<>>
          /\ \E d \in net :
              /\ net' = net \ {d}
              /\ queue' = IF d.kind = "stun" THEN queue ELSE Append(queue, d)
          /\ UNCHANGED kept
    /\ UNCHANGED <<pc, gatherVars, engineVars, answers, unasked, timeVars>>

(* learnPeerReflexive                                                      *)
Learn(from) ==
    IF \E id \in DOMAIN cands : cands[id].addr = from
    THEN cands ELSE AddCandidate(cands, <<"prflx", from>>, "prflx", from)

\* Mutant: where an answer comes from does not matter.
AddressKnown(id, from) == id \in DOMAIN cands

(* addressMatches                                                          *)
AddressMatches(id, from) == id \in DOMAIN cands /\ cands[id].addr = from

(* verifyResponse, and RecordSuccess.                                      *)
Verifies(d) == d.kind = "response" /\ d.nonce \in outstanding /\ AddressMatches(d.nonce[1], d.from)

(* awaitResponse took an arrival: handleArrival.  A challenge is answered, *)
(* which changes nothing here; what does not authenticate is dropped.      *)
HandleArrival ==
    /\ pc = "wait" /\ queue # <<>>
    /\ queue' = Tail(queue) /\ pc' = "loop"
    /\ LET d == Head(queue)
       IN  \/ /\ d.kind = "challenge"
              /\ cands' = Learn(d.from)
              /\ UNCHANGED <<nominated, outstanding>>
           \/ /\ Verifies(d)
              /\ cands' = [cands EXCEPT ![d.nonce[1]].status = "valid"]
              /\ nominated' = IF nominated = None THEN d.nonce[1] ELSE nominated
              /\ outstanding' = outstanding \ {d.nonce}
           \/ /\ d.kind # "challenge" /\ ~Verifies(d)
              /\ UNCHANGED engineVars
    /\ UNCHANGED <<gatherVars, net, kept, answers, unasked, timeVars>>

(* CheckTimeout passed, or the context ended.                              *)
AwaitTimeout ==
    /\ pc = "wait"
    /\ pc' = "loop"
    /\ UNCHANGED <<gatherVars, engineVars, wireVars, timeVars>>
-----------------------------------------------------------------------------
(* External.                                                               *)

Over == pc \in {"done", "failed"}

ServerAnswers(i) ==
    /\ ~Over /\ i \in asked
    /\ net' = net \cup {[kind |-> "stun", txn |-> i, addr |-> Mapping[i]]}
    /\ asked' = asked \ {i}
    /\ UNCHANGED <<pc, local, srv, found, engineVars, kept, queue, answers, unasked, timeVars>>

(* A challenge reaches the peer, whose answer comes from one of the        *)
(* addresses its datagrams come from.                                      *)
PeerAnswers(o, from) ==
    /\ ~Over /\ o \in outstanding /\ cands[o[1]].addr \in PeerAddr
    /\ from \in Sources[cands[o[1]].addr]
    /\ \A x \in answers : x.nonce # o
    /\ answers' = answers \cup {[nonce |-> o, to |-> cands[o[1]].addr, from |-> from]}
    /\ net' = net \cup {[kind |-> "response", nonce |-> o, from |-> from]}
    /\ UNCHANGED <<pc, gatherVars, engineVars, kept, queue, unasked, timeVars>>

(* A challenge of the peer's, or something that does not authenticate.     *)
Unasked(kind, from) ==
    /\ ~Over /\ unasked < MaxUnasked
    /\ unasked' = unasked + 1
    /\ net' = net \cup {[kind |-> kind, from |-> from]}
    /\ UNCHANGED <<pc, gatherVars, engineVars, kept, queue, answers, timeVars>>

(* The engine's clock, and later the context's, reaches its limit; or the  *)
(* worker is cancelled.                                                    *)
TimePasses ==
    /\ ~Over
    /\ \/ ~late /\ late' = TRUE /\ UNCHANGED ended
       \/ ~ended /\ pc \in {"loop", "wait"} /\ ended' = TRUE /\ UNCHANGED late
    /\ UNCHANGED <<pc, gatherVars, engineVars, wireVars>>

Steps ==
    \/ \E up \in SUBSET Interface : Gather(up)
    \/ Observe \/ ObserveTimeout \/ GatherDone
    \/ PublishCandidates \/ CandidatesTimeout
    \/ Return \/ HandleArrival \/ AwaitTimeout
    \/ \E ids \in SUBSET DOMAIN cands : \E lost \in SUBSET ids : ProbeRound(ids, lost)

Next ==
    \/ Steps \/ Receive \/ TimePasses
    \/ \E d \in net : ReceiveSTUN(d) \/ DispatchProbe(d)
    \/ \E offer \in Offers : ConsumePeerCandidates(offer)
    \/ \E i \in asked : ServerAnswers(i)
    \/ \E o \in outstanding, from \in Addr : PeerAnswers(o, from)
    \/ \E kind \in {"challenge", "noise"}, from \in PeerAddr : Unasked(kind, from)

Spec == Init /\ [][Next]_vars

(* The attempt's goroutine runs, and each of its waits has a timer but     *)
(* the publication, which waits for the relays as long as the worker does. *)
(* Nothing is assumed of the network, nor that TotalTimeout passes.        *)
FairSpec == Spec /\ WF_vars(Steps /\ pc # "publish")
-----------------------------------------------------------------------------
(* A path that is nominated was proven: a challenge sent to the candidate  *)
(* reached the peer and its answer came from that same address, whatever   *)
(* was late, came from elsewhere or belonged to another candidate          *)
(* (verifyResponse, RecordSuccess).                                        *)
NominatedIsProven ==
    nominated # None =>
        \E x \in answers : x.to = cands[nominated].addr /\ x.from = x.to

(* An answer to any challenge of the run counts, also when later rounds    *)
(* have sent their own: once the checker has read an answer from the       *)
(* address it probed, a path is nominated (outstanding).                   *)
TakesProof ==
    \A x \in answers :
        /\ x.from = x.to /\ queue # <<>> /\ queue' = Tail(queue)
        /\ Head(queue) = [kind |-> "response", nonce |-> x.nonce, from |-> x.from]
        => nominated' # None

LateProofCounts == [][TakesProof]_vars

(* Nobody gives up on a candidate that may still be probed: an attempt     *)
(* that fails in time has sent every candidate all its challenges, also    *)
(* where several share a foundation.  The comments of Foundation and       *)
(* Probable say that such candidates are not both probed; the code probes  *)
(* the next once the first has had all its challenges, and this relies on  *)
(* it (Probable, CanProbe, IsExhausted).                                   *)
ExhaustedIsTried ==
    pc = "failed" /\ ~late /\ ~ended =>
        \A id \in DOMAIN cands : cands[id].attempts = MaxAttempts

(* What an observer is quoted with is what it saw: a late answer to an     *)
(* earlier query is not taken for the answer to the next                   *)
(* (parseSTUNResponse, drain).                                             *)
ObservedIsAsked == \A i \in DOMAIN found : found[i] # None => found[i] = Mapping[i]

(* Gathering ends, and once the candidates are published finding a path    *)
(* ends too, by its budget alone: even when the clock stands still and the *)
(* peer keeps sending (Gather, RecordAttempt, Run).                        *)
RunEnds == <>(Over \/ pc = "publish") /\ (pc = "candidates" ~> Over)
-----------------------------------------------------------------------------
(* The strengthening under which the properties above are inductive.       *)

(* Before the checker runs it has no candidates.                           *)
NothingProbed ==
    pc \in {"gather", "observe", "awaitStun", "publish", "candidates"} =>
        DOMAIN cands = {} /\ nominated = None

(* A query is under way to an observer there is.                           *)
QueryIsOne == pc = "awaitStun" => srv <= Len(Servers)

(* Observers answer with what they see.                                    *)
StunSound == \A d \in Datagrams("stun") : d.addr = Mapping[d.txn]

(* A response, wherever it is, was sent by the peer.                       *)
Sent(d) == d.kind = "response" => \E x \in answers : x.nonce = d.nonce /\ x.from = d.from

ResponsesSent ==
    /\ \A d \in net : Sent(d)
    /\ \A i \in 1..Len(kept) : Sent(kept[i])
    /\ \A i \in 1..Len(queue) : Sent(queue[i])

(* What the peer answered was a challenge to a candidate that has its      *)
(* address still, and it is outstanding until a path is nominated.         *)
AnswersSound ==
    \A x \in answers :
        /\ x.nonce[1] \in DOMAIN cands /\ x.to = cands[x.nonce[1]].addr
        /\ x.nonce \in outstanding \/ nominated # None

(* The first candidate that is valid is nominated.                         *)
ValidIsNominated == nominated = None => \A id \in DOMAIN cands : cands[id].status # "valid"

ConnectivityInv ==
    /\ TypeOK /\ NothingProbed /\ QueryIsOne /\ StunSound /\ ResponsesSent
    /\ AnswersSound /\ ValidIsNominated
    /\ NominatedIsProven /\ ExhaustedIsTried /\ ObservedIsAsked
=============================================================================
