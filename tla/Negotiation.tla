---------------------------- MODULE Negotiation ----------------------------
(***************************************************************************)
(* Two nodes bring up a tunnel through relays that keep and replay what    *)
(* was published: the driver (internal/orchestrator/driver.go), the        *)
(* handshake it runs (internal/session), the control plane that carries    *)
(* its messages (cmd/nostmesh/control.go) and the worker that retries it   *)
(* (cmd/nostmesh/service.go).                                              *)
(*                                                                         *)
(* Each attempt of a worker draws a tunnel key and, as initiator, a        *)
(* session id.  Both are random and never drawn twice: the model names     *)
(* both by the node and the number of its attempt.  An attempt subscribes  *)
(* anew, so the relays hand it everything they still hold, in any order.   *)
(* session.ready is left out: nothing reads it.                            *)
(***************************************************************************)
EXTENDS Naturals, FiniteSets

CONSTANTS
    Node,         \* the two nodes
    Lower,        \* the one whose identity sorts lower
    None,         \* no session, no key, no interface
    MaxAttempts,  \* bound on the attempts of each node
    MaxCrashes,   \* bound on process crashes
    MaxHeld,      \* maxHeldPerType
    Expiring,     \* handshake deadlines may pass
    StoreFails,   \* writing or reading the answered-session record may fail
    PublishFails  \* too few relays may accept a publication

ASSUME NegotiationAssumption ==
    /\ Lower \in Node /\ \E p \in Node : p # Lower /\ Node = {Lower, p}
    /\ MaxAttempts \in Nat /\ MaxCrashes \in Nat /\ MaxHeld \in Nat \ {0}
    /\ Expiring \in BOOLEAN /\ StoreFails \in BOOLEAN /\ PublishFails \in BOOLEAN

VARIABLES
    phase,     \* what each node's driver is doing
    attempt,   \* attempts each node has made
    next,      \* the role each worker asks for: "auto" or "initiator"
    role,      \* the role of each node's attempt
    sess,      \* the session each control plane is bound to
    peerKey,   \* the peer tunnel key each handshake has bound
    expired,   \* whether each handshake's deadline has passed
    sent,      \* every message a relay ever accepted
    got,       \* what each attempt has been handed, or will never be
    held,      \* messages each driver keeps for a later step
    answered,  \* the sessions each process knows it answered
    stored,    \* the durable record of them
    lost,      \* history: sessions whose record could not be written or read
    proven,    \* a response to each node's challenge is there or on its way
    iface,     \* each host's tunnel interface: its key and its peer's
    shook,     \* each kernel has seen a handshake on it
    mirrors,   \* history: every interface ever configured, with its session
    crashes    \* crashes so far

attemptVars == <<sess, peerKey, expired, got, held, proven>>
recordVars  == <<answered, stored, lost>>
hostVars    == <<iface, shook, mirrors>>
vars == <<phase, attempt, next, role, attemptVars, sent, recordVars, hostVars, crashes>>
-----------------------------------------------------------------------------
Peer(n) == CHOOSE p \in Node : p # n

Id == Node \X (1..MaxAttempts)

(* The keys of an interface, and what an end agreed on.                    *)
Keys      == [key : Id, peer : Id]
Agreement == [sess : Id, key : Id, peer : Id]

(* None stands for nil.                                                    *)
ASSUME NoneAssumption == None \notin Id /\ None \notin Keys /\ None \notin Agreement

(* Of an attempt: its tunnel key and, for an initiator, its session.       *)
Own(n) == <<n, attempt[n]>>

Kind == {"request", "offer", "accept", "candidates"}

(* key: the sender's tunnel key, or the offer that an accept refers to.    *)
Message == [kind : Kind, from : Node, sess : Id, key : Id]

Msg(n, kind, s, k) == [kind |-> kind, from |-> n, sess |-> s, key |-> k]

Phase == {"down", "idle", "awaitRequest", "awaitOffer", "awaitAccept", "gather",
          "awaitCandidates", "checking", "verifying", "established"}

(* The message type each wait is for.                                      *)
Wanted(n) == CASE phase[n] = "awaitRequest"    -> "request"
               [] phase[n] = "awaitOffer"      -> "offer"
               [] phase[n] = "awaitAccept"     -> "accept"
               [] phase[n] = "awaitCandidates" -> "candidates"

Waiting == {"awaitRequest", "awaitOffer", "awaitAccept", "awaitCandidates"}

(* Where the handshake has reached StateConnecting.                        *)
Agreed == {"gather", "awaitCandidates", "checking", "verifying", "established"}

(* opensAConversation: the relay keeps the newest of these per sender.     *)
OpensAConversation(m) == m.kind \in {"request", "offer"}

Attempt(m) == IF m.kind = "request" THEN m.sess[2] ELSE m.key[2]

(* External: a relay replaces an addressable event by a newer one.         *)
Retained(m) ==
    OpensAConversation(m) =>
        \A o \in sent : o.kind = m.kind /\ o.from = m.from => Attempt(o) <= Attempt(m)

ResolveRole(n, asked) ==
    IF asked = "initiator" \/ n = Lower THEN "initiator" ELSE "responder"

(* What n's subscription can still hand it.                                *)
Deliverable(n) == {m \in sent : m.from = Peer(n)} \ got[n]

(* controlPlane.matchesSession: an unbound plane takes everything.         *)
MatchesSession(n, m) == sess[n] = None \/ m.sess = sess[n]

HeldOf(n, kind) == {m \in held[n] : m.kind = kind}

(* DeriveSessionKey agrees, so probes authenticate.                        *)
SameProbeKey(n, p) ==
    sess[n] = sess[p] /\ peerKey[n] = Own(p) /\ peerKey[p] = Own(n)

(* What each node's attempt has agreed on, once it has.                    *)
AgreedOn(n) == [sess |-> sess[n], key |-> Own(n), peer |-> peerKey[n]]

(* WireGuard completes a handshake between interfaces that name each other.*)
Mirrored(n, p) ==
    /\ iface[n] # None /\ iface[p] # None
    /\ iface[n].key = iface[p].peer /\ iface[p].key = iface[n].peer

TypeOK ==
    /\ phase \in [Node -> Phase]
    /\ attempt \in [Node -> 0..MaxAttempts]
    /\ next \in [Node -> {"auto", "initiator"}]
    /\ role \in [Node -> {"initiator", "responder"}]
    /\ sess \in [Node -> Id \cup {None}]
    /\ peerKey \in [Node -> Id \cup {None}]
    /\ expired \in [Node -> BOOLEAN]
    /\ sent \subseteq Message
    /\ got \in [Node -> SUBSET Message]
    /\ held \in [Node -> SUBSET Message]
    /\ answered \in [Node -> SUBSET Id]
    /\ stored \in [Node -> SUBSET Id] /\ lost \subseteq Id
    /\ proven \in [Node -> BOOLEAN]
    /\ iface \in [Node -> Keys \cup {None}]
    /\ shook \in [Node -> BOOLEAN]
    /\ mirrors \subseteq Agreement
    /\ crashes \in 0..MaxCrashes

Init ==
    /\ phase = [n \in Node |-> "idle"]
    /\ attempt = [n \in Node |-> 0]
    /\ next = [n \in Node |-> "auto"]
    /\ role = [n \in Node |-> ResolveRole(n, "auto")]
    /\ sess = [n \in Node |-> None]
    /\ peerKey = [n \in Node |-> None]
    /\ expired = [n \in Node |-> FALSE]
    /\ sent = {}
    /\ got = [n \in Node |-> {}]
    /\ held = [n \in Node |-> {}]
    /\ answered = [n \in Node |-> {}]
    /\ stored = [n \in Node |-> {}] /\ lost = {}
    /\ proven = [n \in Node |-> FALSE]
    /\ iface = [n \in Node |-> None]
    /\ shook = [n \in Node |-> FALSE]
    /\ mirrors = {}
    /\ crashes = 0
-----------------------------------------------------------------------------
Goto(n, p) == phase' = [phase EXCEPT ![n] = p]

(* The driver, its control plane and its subscription are gone with the    *)
(* attempt.                                                                *)
ClearAttempt(n) ==
    /\ sess' = [sess EXCEPT ![n] = None]
    /\ peerKey' = [peerKey EXCEPT ![n] = None]
    /\ expired' = [expired EXCEPT ![n] = FALSE]
    /\ got' = [got EXCEPT ![n] = {}]
    /\ held' = [held EXCEPT ![n] = {}]
    /\ proven' = [proven EXCEPT ![n] = FALSE]

\* Mutant: the worker asks for the role it had.
EndInRole(n, asked) ==
    /\ Goto(n, "idle") /\ ClearAttempt(n)
    /\ next' = [next EXCEPT ![n] = role[n]]

(* The attempt ended with an error; roleAfter.                             *)
End(n, asked) ==
    /\ Goto(n, "idle") /\ ClearAttempt(n)
    /\ next' = [next EXCEPT ![n] = asked]

(* Publish, and go on or give up.  Too few acceptances is an error, though *)
(* a relay may have the message all the same.                              *)
PublishRefused(n, m) ==
    /\ PublishFails
    /\ sent' \in {sent, sent \cup {m}}
    /\ End(n, "auto")

(* What a new subscription is not handed: events already replaced.         *)
Subscribe(n) ==
    got' = [got EXCEPT ![n] = {m \in sent : m.from = Peer(n) /\ ~Retained(m)}]

(* attempt, buildSessionRuntime and Connect's opening: the port is bound,  *)
(* the subscription made, the role resolved; an initiator names a session, *)
(* draws a key and publishes its request.                                  *)
StartAttempt(n) ==
    LET id == <<n, attempt[n] + 1>>
        m  == Msg(n, "request", id, id)
    IN  /\ phase[n] = "idle" /\ attempt[n] < MaxAttempts
        /\ iface[n] = None
        /\ attempt' = [attempt EXCEPT ![n] = @ + 1]
        /\ role' = [role EXCEPT ![n] = ResolveRole(n, next[n])]
        /\ \/ /\ role'[n] = "responder" /\ Goto(n, "awaitRequest")
              /\ Subscribe(n)
              /\ UNCHANGED <<sent, next, sess, peerKey, expired, held, proven>>
           \/ /\ role'[n] = "initiator" /\ Goto(n, "awaitOffer")
              /\ Subscribe(n)
              /\ sess' = [sess EXCEPT ![n] = id]
              /\ sent' = sent \cup {m}
              /\ UNCHANGED <<next, peerKey, expired, held, proven>>
           \/ role'[n] = "initiator" /\ PublishRefused(n, m)
        /\ UNCHANGED <<recordVars, hostVars, crashes>>

(* A leftover interface holds the port: the attempt fails to bind.         *)
PortHeld(n) ==
    /\ phase[n] = "idle" /\ attempt[n] < MaxAttempts
    /\ iface[n] # None
    /\ attempt' = [attempt EXCEPT ![n] = @ + 1]
    /\ next' = [next EXCEPT ![n] = "auto"]
    /\ UNCHANGED <<phase, role, attemptVars, sent, recordVars, hostVars, crashes>>
-----------------------------------------------------------------------------
(* controlPlane.Next refuses a message of another session.                 *)
Refuse(n, m) ==
    /\ phase[n] \in Waiting /\ HeldOf(n, Wanted(n)) = {}
    /\ m \in Deliverable(n) /\ ~MatchesSession(n, m)
    /\ got' = [got EXCEPT ![n] = @ \cup {m}]
    /\ UNCHANGED <<phase, attempt, next, role, sess, peerKey, expired, held, proven,
                   sent, recordVars, hostVars, crashes>>

(* awaitMessage keeps what it is not waiting for, MaxHeld of a type; the   *)
(* oldest goes first, and any of them may be the oldest.                   *)
Keep(n, m) ==
    LET same == HeldOf(n, m.kind)
    IN  /\ phase[n] \in Waiting /\ HeldOf(n, Wanted(n)) = {}
        /\ m \in Deliverable(n) /\ MatchesSession(n, m) /\ m.kind # Wanted(n)
        /\ got' = [got EXCEPT ![n] = @ \cup {m}]
        /\ \/ Cardinality(same) < MaxHeld /\ held' = [held EXCEPT ![n] = @ \cup {m}]
           \/ /\ Cardinality(same) >= MaxHeld
              /\ \E o \in same : held' = [held EXCEPT ![n] = (@ \ {o}) \cup {m}]
        /\ UNCHANGED <<phase, attempt, next, role, sess, peerKey, expired, proven,
                       sent, recordVars, hostVars, crashes>>

(* awaitMessage's answer: a held message first, the next delivered if none *)
(* is held.                                                                *)
Awaited(n, m) ==
    /\ m.kind = Wanted(n)
    /\ \/ m \in held[n]
       \/ HeldOf(n, m.kind) = {} /\ m \in Deliverable(n) /\ MatchesSession(n, m)

Take(n, m) == got' = [got EXCEPT ![n] = @ \cup {m}]

Drop(n, m) == held' = [held EXCEPT ![n] = @ \ {m}]

\* Mutant: any acceptance in the session will do.
PassesOverAnswered(n, m) == m.kind = "request" /\ m.sess \in answered[n]

(* awaitRequest passes over a session already answered, awaitAccept over   *)
(* an acceptance of another offer.                                         *)
PassesOver(n, m) ==
    \/ m.kind = "request" /\ m.sess \in answered[n]
    \/ m.kind = "accept" /\ m.key # Own(n)

SkipStale(n, m) ==
    /\ phase[n] \in Waiting /\ Awaited(n, m) /\ PassesOver(n, m)
    /\ Take(n, m) /\ Drop(n, m)
    /\ UNCHANGED <<phase, attempt, next, role, sess, peerKey, expired, proven,
                   sent, recordVars, hostVars, crashes>>

\* Mutant: the record is kept in memory and written on a clean exit.
RecordInMemory(n, s) ==
    answered' = [answered EXCEPT ![n] = @ \cup {s}] /\ UNCHANGED <<stored, lost>>

(* AnsweredSessions.Add writes the record at once and drops the error.     *)
RecordAttempt(n, s) ==
    /\ answered' = [answered EXCEPT ![n] = @ \cup {s}]
    /\ \/ stored' = [stored EXCEPT ![n] = answered'[n]] /\ UNCHANGED lost
       \/ StoreFails /\ UNCHANGED stored /\ lost' = lost \cup {s}

(* settle, Begin, beginHandshake, ReceiveRequest, BuildOffer and the offer.*)
AnswerRequest(n, m) ==
    LET offer == Msg(n, "offer", m.sess, Own(n))
    IN  /\ phase[n] = "awaitRequest" /\ Awaited(n, m) /\ ~PassesOver(n, m)
        /\ RecordAttempt(n, m.sess)
        /\ \/ /\ Goto(n, "awaitAccept") /\ Take(n, m)
              /\ sess' = [sess EXCEPT ![n] = m.sess]
              /\ peerKey' = [peerKey EXCEPT ![n] = m.key]
              /\ Drop(n, m)
              /\ sent' = sent \cup {offer}
              /\ UNCHANGED <<next, expired, proven>>
           \/ PublishRefused(n, offer)
        /\ UNCHANGED <<attempt, role, hostVars, crashes>>

(* ReceiveOffer, BuildAccept and the acceptance; a deadline that passed    *)
(* fails the handshake.                                                    *)
AcceptOffer(n, m) ==
    LET accept == Msg(n, "accept", sess[n], m.key)
    IN  /\ phase[n] = "awaitOffer" /\ Awaited(n, m)
        /\ \/ /\ ~expired[n] /\ Goto(n, "gather") /\ Take(n, m)
              /\ peerKey' = [peerKey EXCEPT ![n] = m.key]
              /\ Drop(n, m)
              /\ sent' = sent \cup {accept}
              /\ UNCHANGED <<next, sess, expired, proven>>
           \/ ~expired[n] /\ PublishRefused(n, accept)
           \/ expired[n] /\ End(n, "auto") /\ UNCHANGED sent
        /\ UNCHANGED <<attempt, role, recordVars, hostVars, crashes>>

(* ReceiveAccept                                                           *)
ReceiveAccept(n, m) ==
    /\ phase[n] = "awaitAccept" /\ Awaited(n, m) /\ ~PassesOver(n, m)
    /\ \/ /\ ~expired[n] /\ Goto(n, "gather") /\ Take(n, m) /\ Drop(n, m)
          /\ UNCHANGED <<next, sess, peerKey, expired, proven>>
       \/ expired[n] /\ End(n, "auto")
    /\ UNCHANGED <<attempt, role, sent, recordVars, hostVars, crashes>>

(* verifyPath gathers and publishes this node's candidates.                *)
PublishCandidates(n) ==
    LET m == Msg(n, "candidates", sess[n], Own(n))
    IN  /\ phase[n] = "gather"
        /\ \/ /\ Goto(n, "awaitCandidates") /\ sent' = sent \cup {m}
              /\ UNCHANGED <<next, attemptVars>>
           \/ PublishRefused(n, m)
        /\ UNCHANGED <<attempt, role, recordVars, hostVars, crashes>>

(* consumePeerCandidates, where some of them is usable.  A kept message    *)
(* may be one of an earlier session: only probing tells.  No wait follows  *)
(* that reads, so what was read and kept is forgotten.                     *)
ConsumeCandidates(n, m) ==
    /\ phase[n] = "awaitCandidates" /\ Awaited(n, m)
    /\ Goto(n, "checking")
    /\ got' = [got EXCEPT ![n] = {}] /\ held' = [held EXCEPT ![n] = {}]
    /\ UNCHANGED <<attempt, next, role, sess, peerKey, expired, proven,
                   sent, recordVars, hostVars, crashes>>

(* Checker.answer: n's checker answers its peer's challenge.  A checker    *)
(* that has nominated a path answers nobody.                               *)
AnswerChallenge(n) ==
    LET p == Peer(n)
    IN  /\ phase[n] = "checking" /\ phase[p] = "checking"
        /\ SameProbeKey(n, p) /\ ~proven[p]
        /\ proven' = [proven EXCEPT ![p] = TRUE]
        /\ UNCHANGED <<phase, attempt, next, role, sess, peerKey, expired, held,
                       sent, got, recordVars, hostVars, crashes>>

\* Mutant: the interface keeps the key of the node's first attempt.
ConfigureFirstKey(n) ==
    LET tunnel == [key |-> <<n, 1>>, peer |-> peerKey[n]]
    IN  /\ phase[n] = "checking" /\ proven[n]
        /\ Goto(n, "verifying")
        /\ iface' = [iface EXCEPT ![n] = tunnel]
        /\ shook' = [shook EXCEPT ![n] = FALSE]
        /\ mirrors' = mirrors \cup {[key |-> <<n, 1>>, peer |-> peerKey[n], sess |-> sess[n]]}
        /\ UNCHANGED <<attempt, next, role, attemptVars, sent, recordVars, crashes>>

(* A response verified: the port goes to the kernel with the session's     *)
(* keys.  Apply is the transaction of module NetState; that it may leave   *)
(* something behind when it fails is that module's subject.                *)
Configure(n) ==
    LET tunnel == [key |-> Own(n), peer |-> peerKey[n]]
    IN  /\ phase[n] = "checking" /\ proven[n]
        /\ Goto(n, "verifying")
        /\ iface' = [iface EXCEPT ![n] = tunnel]
        /\ shook' = [shook EXCEPT ![n] = FALSE]
        /\ mirrors' = mirrors \cup {AgreedOn(n)}
        /\ UNCHANGED <<attempt, next, role, attemptVars, sent, recordVars, crashes>>

(* External: the kernels complete a WireGuard handshake; n's sees it.      *)
Shake(n) ==
    /\ Mirrored(n, Peer(n)) /\ ~shook[n]
    /\ shook' = [shook EXCEPT ![n] = TRUE]
    /\ UNCHANGED <<phase, attempt, next, role, attemptVars, sent, recordVars,
                   iface, mirrors, crashes>>

RemoveInterface(n) ==
    /\ iface' = [iface EXCEPT ![n] = None]
    /\ shook' = [shook EXCEPT ![n] = FALSE]
    /\ UNCHANGED mirrors

(* netstate.Remove may fail: the interface stays.                          *)
TearDown(n) == RemoveInterface(n) \/ UNCHANGED hostVars

\* Mutant: a configured interface is taken for a working tunnel.
ConfirmConfigured(n) ==
    /\ phase[n] = "verifying" /\ Goto(n, "established")
    /\ UNCHANGED <<attempt, next, role, attemptVars, sent, recordVars, hostVars, crashes>>

(* awaitHandshake returned and ConfirmEstablished decides.                 *)
ConfirmEstablished(n) ==
    /\ phase[n] = "verifying" /\ shook[n]
    /\ \/ /\ ~expired[n] /\ Goto(n, "established")
          /\ UNCHANGED <<next, attemptVars>>
       \/ expired[n] /\ End(n, "auto")
    /\ UNCHANGED <<attempt, role, sent, recordVars, hostVars, crashes>>

(* awaitHandshake gave up: what was applied is removed.                    *)
VerifyTimeout(n) ==
    /\ phase[n] = "verifying"
    /\ End(n, "auto") /\ TearDown(n)
    /\ UNCHANGED <<attempt, role, sent, recordVars, crashes>>

(* Hold ended: the path died, or the peer's end of it.  Release.           *)
Release(n) ==
    /\ phase[n] = "established"
    /\ End(n, "auto") /\ TearDown(n)
    /\ UNCHANGED <<attempt, role, sent, recordVars, crashes>>

(* A wait or the probing runs out; gathering may be cancelled.  A responder*)
(* nobody called takes the other role next.                                *)
Timeout(n) ==
    /\ phase[n] \in Waiting \cup {"gather", "checking"}
    /\ End(n, IF phase[n] = "awaitRequest" THEN "initiator" ELSE "auto")
    /\ UNCHANGED <<attempt, role, sent, recordVars, hostVars, crashes>>

(* The handshake's deadline passes; it is counted from its creation.       *)
Expire(n) ==
    /\ Expiring /\ ~expired[n]
    /\ phase[n] \in {"awaitOffer", "awaitAccept"} \cup (Agreed \ {"established"})
    /\ expired' = [expired EXCEPT ![n] = TRUE]
    /\ UNCHANGED <<phase, attempt, next, role, sess, peerKey, held, proven,
                   sent, got, recordVars, hostVars, crashes>>

(* The process dies; the kernel keeps the interface.                       *)
Crash(n) ==
    /\ phase[n] # "down" /\ crashes < MaxCrashes
    /\ Goto(n, "down") /\ ClearAttempt(n)
    /\ answered' = [answered EXCEPT ![n] = {}]
    /\ next' = [next EXCEPT ![n] = "auto"]
    /\ crashes' = crashes + 1
    /\ UNCHANGED <<attempt, role, sent, stored, lost, hostVars>>

(* recoverHostState removes the interface and WithStore loads the record;  *)
(* where either fails the node goes on without.  A record that could not   *)
(* be read is written over by the next session answered.                   *)
Restart(n) ==
    /\ phase[n] = "down"
    /\ Goto(n, "idle")
    /\ \/ answered' = [answered EXCEPT ![n] = stored[n]] /\ UNCHANGED lost
       \/ StoreFails /\ UNCHANGED answered /\ lost' = lost \cup stored[n]
    /\ TearDown(n)
    /\ UNCHANGED <<attempt, next, role, attemptVars, sent, stored, crashes>>
-----------------------------------------------------------------------------
Reads(n) == \E m \in sent :
    \/ Refuse(n, m) \/ Keep(n, m) \/ SkipStale(n, m)
    \/ AnswerRequest(n, m) \/ AcceptOffer(n, m) \/ ReceiveAccept(n, m) \/ ConsumeCandidates(n, m)

Next == \E n \in Node :
    \/ StartAttempt(n) \/ PortHeld(n) \/ Reads(n)
    \/ PublishCandidates(n) \/ AnswerChallenge(n) \/ Configure(n) \/ Shake(n)
    \/ ConfirmEstablished(n) \/ VerifyTimeout(n) \/ Release(n)
    \/ Timeout(n) \/ Expire(n) \/ Crash(n) \/ Restart(n)

Spec == Init /\ [][Next]_vars
-----------------------------------------------------------------------------
(* Two nodes that believe they agreed on the same session hold each        *)
(* other's keys: no replayed offer or acceptance of an earlier attempt,    *)
(* and no restart, pairs a session with a key of another (offerHash,       *)
(* bindPeerTunnelKey, awaitAccept).                                        *)
MirrorKeys ==
    \A n \in Node : LET p == Peer(n) IN
        /\ phase[n] \in Agreed /\ phase[p] \in Agreed /\ sess[n] = sess[p]
        => peerKey[n] = Own(p) /\ peerKey[p] = Own(n)

(* An established node's tunnel was real at both ends: the peer configured *)
(* an interface with the mirrored keys, in the same session.  Nobody is    *)
(* established on the peer's word or on a replay (ConfirmEstablished).     *)
EstablishedIsMutual ==
    \A n \in Node : phase[n] = "established" =>
        [sess |-> sess[n], key |-> peerKey[n], peer |-> Own(n)] \in mirrors

(* A session is answered once, whatever is replayed and whoever restarts,  *)
(* unless its record could not be written, or could not be read back at a  *)
(* start ("answers a replayed session at worst", WithStore): two offers of *)
(* a node in one session are the same offer (AnsweredSessions).            *)
AnsweredOnce ==
    \A m, o \in sent :
        m.kind = "offer" /\ o.kind = "offer" /\ m.sess = o.sess => m = o \/ m.sess \in lost

(* The negotiation keeps what a session promises: agreement on each        *)
(* other's keys, keys that serve one session, an interface with what was   *)
(* agreed, and an established tunnel that both ends configured (Connect).  *)
Promise == INSTANCE Tunnel WITH
    end  <- [n \in Node |-> IF phase[n] \in Agreed THEN AgreedOn(n) ELSE None],
    host <- iface,
    up   <- {n \in Node : phase[n] = "established"},
    made <- mirrors

KeepsPromise == Promise!Spec
-----------------------------------------------------------------------------
(* What the proofs of these properties need besides them.                  *)

(* A request names its sender's session and key; an offer is the answer to *)
(* a session of the peer's; an acceptance is one of an offer that was made *)
(* in the session.                                                         *)
MessagesSound ==
    \A m \in sent :
        /\ m.kind = "request" =>
             m.key = m.sess /\ m.sess[1] = m.from /\ m.sess[2] <= attempt[m.from]
        /\ m.kind = "offer" =>
             m.key[1] = m.from /\ m.key[2] <= attempt[m.from] /\ m.sess[1] = Peer(m.from)
        /\ m.kind = "accept" =>
             /\ m.sess[1] = m.from /\ m.sess[2] <= attempt[m.from]
             /\ Msg(Peer(m.from), "offer", m.sess, m.key) \in sent

(* An attempt makes one offer or accepts one, and not both.                *)
OnePerAttempt ==
    \A m, o \in sent :
        /\ (m.kind = "offer" /\ o.kind = "offer" /\ m.key = o.key) => m = o
        /\ (m.kind = "accept" /\ o.kind = "accept" /\ m.sess = o.sess) => m = o
        /\ (m.kind = "accept" /\ o.kind = "offer") => m.sess # o.key

(* n's attempt has neither made an offer nor accepted one.                 *)
Unsaid(n) ==
    \A m \in sent :
        /\ m.kind = "offer" => m.key # Own(n)
        /\ m.kind = "accept" => m.sess # Own(n)

(* The agreement of a node rests on an acceptance: the one it sent in the  *)
(* session it opened, or the one it got for its offer.                     *)
RestsOn(n, a) ==
    \/ a.sess = a.key /\ Msg(n, "accept", a.sess, a.peer) \in sent
    \/ a.sess = a.peer /\ Msg(Peer(n), "accept", a.sess, a.key) \in sent

(* What each step of a driver leaves it with.                              *)
Knows(n) ==
    /\ held[n] \subseteq {m \in sent : m.from = Peer(n)}
    /\ phase[n] \in {"idle", "down"} => held[n] = {}
    /\ phase[n] \notin {"idle", "down"} => Own(n) \in Id
    /\ phase[n] \in {"awaitRequest", "awaitOffer"} => Unsaid(n)
    /\ phase[n] = "awaitOffer" => sess[n] = Own(n) /\ \A m \in held[n] : m.sess = sess[n]
    /\ phase[n] = "awaitAccept" =>
         sess[n] \in Id /\ peerKey[n] = sess[n] /\ Msg(n, "offer", sess[n], Own(n)) \in sent
    /\ phase[n] \in Agreed =>
         sess[n] \in Id /\ peerKey[n] \in Id /\ RestsOn(n, AgreedOn(n))

(* Every interface was configured with an agreement of an attempt that has *)
(* been.                                                                   *)
MirrorsRest ==
    \A t \in mirrors : t.key[2] <= attempt[t.key[1]] /\ RestsOn(t.key[1], t)

(* What n's host has is what its attempt configured or an earlier one did, *)
(* and a kernel that saw a handshake saw the interface at the other end.   *)
Hosts(n) ==
    /\ phase[n] \in {"verifying", "established"} =>
         iface[n] = [key |-> Own(n), peer |-> peerKey[n]] /\ AgreedOn(n) \in mirrors
    /\ phase[n] \in Waiting \cup {"gather", "checking"} => \A t \in mirrors : t.key # Own(n)
    /\ iface[n] # None => \E t \in mirrors : t.key = iface[n].key /\ t.peer = iface[n].peer
    /\ shook[n] => /\ iface[n] # None
                   /\ \E t \in mirrors : t.key = iface[n].peer /\ t.peer = iface[n].key

(* An offer is on record, in memory as well while the process runs, unless *)
(* the record could not be written or read.                                *)
OffersRecorded ==
    /\ \A n \in Node : phase[n] # "down" => stored[n] \subseteq answered[n] \cup lost
    /\ \A m \in sent : m.kind = "offer" => m.sess \in stored[m.from] \cup lost

NegotiationInv ==
    /\ TypeOK /\ MessagesSound /\ OnePerAttempt /\ MirrorsRest /\ OffersRecorded
    /\ \A n \in Node : Knows(n) /\ Hosts(n)
    /\ EstablishedIsMutual /\ AnsweredOnce
=============================================================================
