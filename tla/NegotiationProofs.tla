------------------------- MODULE NegotiationProofs -------------------------
(* The negotiation, for any number of attempts, crashes and kept messages: *)
(* two nodes that agree on a session hold each other's keys, nobody is     *)
(* established alone, a session is answered once, and the negotiation      *)
(* implements what module Tunnel promises.                                 *)
EXTENDS Negotiation, TLAPS

(* There are two nodes, each the other's peer.                             *)
LEMMA PeerType ==
    ASSUME NEW n \in Node
    PROVE  /\ Peer(n) \in Node /\ Peer(n) # n
           /\ \A q \in Node : q = n \/ q = Peer(n)
           /\ Peer(Peer(n)) = n
<1>1. PICK p \in Node : p # Lower /\ Node = {Lower, p} /\ Lower \in Node
    BY NegotiationAssumption
<1>2. \A k \in Node : Peer(k) \in Node /\ Peer(k) # k
    BY <1>1 DEF Peer
<1> QED BY <1>1, <1>2

(* An id is a node and the number of an attempt.                           *)
LEMMA IdType ==
    /\ \A x \in Id : x[1] \in Node /\ x[2] \in 1..MaxAttempts /\ x = <<x[1], x[2]>>
    /\ \A n \in Node, k \in 1..MaxAttempts :
         <<n, k>> \in Id /\ <<n, k>>[1] = n /\ <<n, k>>[2] = k
BY DEF Id

(* A message is its fields.                                                *)
LEMMA MessageType ==
    /\ \A m \in Message :
         /\ m.kind \in Kind /\ m.from \in Node /\ m.sess \in Id /\ m.key \in Id
         /\ m = Msg(m.from, m.kind, m.sess, m.key)
    /\ \A n \in Node, kind \in Kind, s \in Id, k \in Id :
         /\ Msg(n, kind, s, k) \in Message
         /\ Msg(n, kind, s, k).kind = kind /\ Msg(n, kind, s, k).from = n
         /\ Msg(n, kind, s, k).sess = s /\ Msg(n, kind, s, k).key = k
BY DEF Message, Msg

(* An attempt's own id, unless it is the zeroth.                           *)
LEMMA OwnType ==
    ASSUME TypeOK, NEW n \in Node
    PROVE  /\ Own(n)[1] = n /\ Own(n)[2] = attempt[n] /\ attempt[n] \in 0..MaxAttempts
           /\ Own(n) \in Id <=> attempt[n] # 0
<1>1. attempt[n] \in 0..MaxAttempts
    BY DEF TypeOK
<1>2. Own(n)[1] = n /\ Own(n)[2] = attempt[n]
    BY DEF Own
<1>3. Own(n) \in Id <=> attempt[n] # 0
    BY <1>1, NegotiationAssumption DEF Own, Id
<1> QED BY <1>1, <1>2, <1>3

(* What n may say.                                                         *)
Sayable(n, m) ==
    /\ m.kind = "request" => m.key = m.sess /\ m.sess[1] = n /\ m.sess[2] <= attempt'[n]
    /\ m.kind = "offer" =>
         /\ m.key[1] = n /\ m.key[2] <= attempt'[n] /\ m.sess[1] = Peer(n)
         /\ \A o \in sent : /\ o.kind = "offer" => o.key # m.key
                            /\ o.kind = "accept" => o.sess # m.key
    /\ m.kind = "accept" =>
         /\ m.sess[1] = n /\ m.sess[2] <= attempt'[n]
         /\ Msg(Peer(n), "offer", m.sess, m.key) \in sent
         /\ \A o \in sent : /\ o.kind = "offer" => o.key # m.sess
                            /\ o.kind = "accept" => o.sess # m.sess

(* No attempt is taken back.                                               *)
Onward == /\ attempt' \in [Node -> 0..MaxAttempts]
          /\ \A q \in Node : attempt[q] <= attempt'[q]

(* What is sayable keeps the messages sound and one per attempt.           *)
LEMMA SayingKeeps ==
    ASSUME NegotiationInv, Onward, NEW n \in Node, NEW m \in Message, m.from = n,
           Sayable(n, m), sent' \in {sent, sent \cup {m}}
    PROVE  MessagesSound' /\ OnePerAttempt' /\ sent' \subseteq Message
<1>a. /\ sent \subseteq Message /\ sent \subseteq sent' /\ sent' \subseteq sent \cup {m}
      /\ MessagesSound /\ OnePerAttempt
    BY DEF NegotiationInv, TypeOK
<1>b. \A o \in Message : o.key[2] \in Nat /\ o.sess[2] \in Nat /\ o.from \in Node
    BY IdType, MessageType
<1>c. \A q \in Node : attempt[q] \in Nat /\ attempt'[q] \in Nat /\ attempt[q] <= attempt'[q]
    BY DEF NegotiationInv, TypeOK, Onward
<1>1. ASSUME NEW o \in sent
      PROVE  /\ o.kind = "request" =>
                  o.key = o.sess /\ o.sess[1] = o.from /\ o.sess[2] <= attempt'[o.from]
             /\ o.kind = "offer" =>
                  o.key[1] = o.from /\ o.key[2] <= attempt'[o.from] /\ o.sess[1] = Peer(o.from)
             /\ o.kind = "accept" =>
                  /\ o.sess[1] = o.from /\ o.sess[2] <= attempt'[o.from]
                  /\ Msg(Peer(o.from), "offer", o.sess, o.key) \in sent
  <2>1. o \in Message /\ o.from \in Node
    BY <1>a, <1>b
  <2>2. o.key[2] <= attempt[o.from] => o.key[2] <= attempt'[o.from]
    BY <1>b, <1>c, <2>1
  <2>3. o.sess[2] <= attempt[o.from] => o.sess[2] <= attempt'[o.from]
    BY <1>b, <1>c, <2>1
  <2> QED BY <1>a, <2>2, <2>3 DEF MessagesSound
<1>2. MessagesSound'
    BY <1>a, <1>1 DEF MessagesSound, Sayable
<1>3. OnePerAttempt'
    BY <1>a DEF OnePerAttempt, Sayable
<1> QED BY <1>a, <1>2, <1>3

(* n says nothing, or something sayable.                                   *)
Says(n) ==
    \/ sent' = sent
    \/ \E m \in Message : m.from = n /\ Sayable(n, m) /\ sent' = sent \cup {m}

(* What every step of n leaves alone: its peer's driver and host.          *)
Apart(n) ==
    \A q \in Node \ {n} :
        /\ phase'[q] = phase[q] /\ attempt'[q] = attempt[q] /\ sess'[q] = sess[q]
        /\ peerKey'[q] = peerKey[q] /\ held'[q] = held[q]
        /\ iface'[q] = iface[q] /\ shook'[q] = shook[q]

(* Interfaces are only ever added to the history, and by a checker that    *)
(* nominated a path.                                                       *)
Records(n) ==
    \/ mirrors' = mirrors
    \/ phase[n] = "checking" /\ mirrors' = mirrors \cup {AgreedOn(n)}

(* What n says and configures agrees with what the invariant knows of its  *)
(* peer, of the messages and of the interfaces.                            *)
LEMMA PeerKeeps ==
    ASSUME NegotiationInv, Onward, NEW n \in Node, Says(n), Apart(n), Records(n)
    PROVE  /\ MessagesSound' /\ OnePerAttempt' /\ MirrorsRest'
           /\ sent \subseteq sent' /\ sent' \subseteq Message
           /\ \A q \in Node \ {n} : Knows(q)' /\ Hosts(q)'
           /\ \A q \in Node \ {n} : phase'[q] = "established" =>
                [sess |-> sess'[q], key |-> peerKey'[q], peer |-> Own(q)'] \in mirrors'
<1>a. TypeOK /\ MessagesSound /\ OnePerAttempt /\ MirrorsRest /\ sent \subseteq Message
    BY DEF NegotiationInv, TypeOK
<1>b. \A q \in Node : attempt[q] \in Nat /\ attempt'[q] \in Nat /\ attempt[q] <= attempt'[q]
    BY <1>a DEF TypeOK, Onward
<1>1. MessagesSound' /\ OnePerAttempt' /\ sent \subseteq sent' /\ sent' \subseteq Message
  <2>1. CASE sent' = sent
    <3>1. \A o \in sent : o.key[2] \in Nat /\ o.sess[2] \in Nat /\ o.from \in Node
      BY <1>a, IdType, MessageType
    <3>2. \A o \in sent : /\ o.key[2] <= attempt[o.from] => o.key[2] <= attempt'[o.from]
                          /\ o.sess[2] <= attempt[o.from] => o.sess[2] <= attempt'[o.from]
      BY <1>b, <3>1
    <3>3. MessagesSound'
      BY <1>a, <2>1, <3>2 DEF MessagesSound
    <3> QED BY <1>a, <2>1, <3>3 DEF OnePerAttempt
  <2>2. CASE \E m \in Message : m.from = n /\ Sayable(n, m) /\ sent' = sent \cup {m}
    BY <2>2, SayingKeeps
  <2> QED BY <2>1, <2>2 DEF Says
<1>2. ASSUME NEW q \in Node, NEW a, RestsOn(q, a)
      PROVE  RestsOn(q, a)'
    BY <1>1, <1>2 DEF RestsOn
<1>3. ASSUME NEW q \in Node \ {n}, Unsaid(q)
      PROVE  Unsaid(q)'
  <2>1. Own(q)' = Own(q) /\ Own(q)[1] = q
    BY OwnType, <1>a DEF Own, Apart
  <2>2. \A m \in sent' \ sent : /\ m.kind = "offer" => m.key[1] = n
                                /\ m.kind = "accept" => m.sess[1] = n
    BY DEF Says, Sayable
  <2> QED BY <1>3, <2>1, <2>2 DEF Unsaid
<1>4. ASSUME NEW q \in Node \ {n}
      PROVE  Knows(q)' /\ Own(q)' = Own(q) /\ AgreedOn(q)' = AgreedOn(q)
  <2>1. Own(q)' = Own(q) /\ AgreedOn(q)' = AgreedOn(q)
    BY DEF Apart, Own, AgreedOn
  <2>2. Knows(q)
    BY DEF NegotiationInv
  <2> QED BY <1>1, <1>2, <1>3, <2>1, <2>2 DEF Knows, Apart
<1>5. mirrors \subseteq mirrors' /\ \A t \in mirrors' \ mirrors : t.key = Own(n) /\ RestsOn(n, t)
    BY DEF Records, AgreedOn, NegotiationInv, Knows, Agreed
<1>6. MirrorsRest'
  <2>1. ASSUME NEW t \in mirrors
        PROVE  t.key[2] <= attempt'[t.key[1]] /\ RestsOn(t.key[1], t)'
    <3>1. t.key \in Id
      BY <1>a DEF TypeOK, Agreement
    <3>2. t.key[1] \in Node /\ t.key[2] \in Nat
      BY <3>1, IdType
    <3> QED BY <1>a, <1>b, <1>2, <3>2 DEF MirrorsRest
  <2>2. ASSUME NEW t \in mirrors' \ mirrors
        PROVE  t.key[2] <= attempt'[t.key[1]] /\ RestsOn(t.key[1], t)'
    BY <1>a, <1>b, <1>2, <1>5, OwnType
  <2> QED BY <2>1, <2>2 DEF MirrorsRest
<1>7. ASSUME NEW q \in Node \ {n}
      PROVE  /\ Hosts(q)'
             /\ phase'[q] = "established" =>
                  [sess |-> sess'[q], key |-> peerKey'[q], peer |-> Own(q)'] \in mirrors'
  <2>1. Own(q) # Own(n)
    BY <1>a, OwnType
  <2>2. Hosts(q)'
    <3>1. Hosts(q)
      BY DEF NegotiationInv
    <3> QED BY <1>4, <1>5, <2>1, <3>1 DEF Hosts, Apart
  <2>3. phase[q] = "established" => [sess |-> sess[q], key |-> peerKey[q], peer |-> Own(q)] \in mirrors
    BY DEF NegotiationInv, EstablishedIsMutual
  <2> QED BY <1>4, <1>5, <2>2, <2>3 DEF Apart
<1> QED BY <1>1, <1>4, <1>6, <1>7

(* The parts of the invariant that a step of n has yet to show once its    *)
(* peer's are known.                                                       *)
LEMMA StepKeeps ==
    ASSUME NegotiationInv, Onward, NEW n \in Node, Says(n), Apart(n), Records(n),
           TypeOK', OffersRecorded', AnsweredOnce', Knows(n)', Hosts(n)',
           phase'[n] = "established" =>
                [sess |-> sess'[n], key |-> peerKey'[n], peer |-> Own(n)'] \in mirrors'
    PROVE  NegotiationInv'
<1>1. /\ MessagesSound' /\ OnePerAttempt' /\ MirrorsRest'
      /\ \A q \in Node \ {n} : Knows(q)' /\ Hosts(q)'
      /\ \A q \in Node \ {n} : phase'[q] = "established" =>
                [sess |-> sess'[q], key |-> peerKey'[q], peer |-> Own(q)'] \in mirrors'
    BY PeerKeeps
<1>2. EstablishedIsMutual'
    BY <1>1 DEF EstablishedIsMutual
<1>3. \A q \in Node : Knows(q)' /\ Hosts(q)'
    BY <1>1
<1> QED BY <1>1, <1>2, <1>3 DEF NegotiationInv

(* A step that makes no offer and leaves the record alone, of processes    *)
(* that run as they did.                                                   *)
LEMMA RecordKept ==
    ASSUME NegotiationInv, UNCHANGED recordVars,
           \A m \in sent' \ sent : m.kind # "offer",
           \A q \in Node : phase'[q] # "down" => phase[q] # "down"
    PROVE  OffersRecorded' /\ AnsweredOnce'
<1>1. OffersRecorded'
    BY DEF NegotiationInv, OffersRecorded, recordVars
<1>2. AnsweredOnce'
    BY DEF NegotiationInv, AnsweredOnce, recordVars
<1> QED BY <1>1, <1>2

(* A step that says nothing and changes neither a phase nor what a node    *)
(* knows: it counts, reads or tells the time.                              *)
LEMMA QuietKeeps ==
    ASSUME NegotiationInv, TypeOK',
           UNCHANGED <<phase, attempt, sess, peerKey, held, sent, recordVars, hostVars>>
    PROVE  NegotiationInv'
BY SMTT(30) DEF NegotiationInv, MessagesSound, OnePerAttempt, MirrorsRest, OffersRecorded, Knows, Hosts,
       EstablishedIsMutual, AnsweredOnce, Unsaid, RestsOn, Own, AgreedOn, recordVars, hostVars

(* The attempt is over: nothing is known of n any more, and its interface  *)
(* is gone or left behind.                                                 *)
LEMMA OverKeeps ==
    ASSUME NegotiationInv, Onward, NEW n \in Node, Says(n), Apart(n), mirrors' = mirrors,
           TypeOK', OffersRecorded', AnsweredOnce',
           phase'[n] \in {"idle", "down"}, held'[n] = {},
           \/ iface'[n] = iface[n] /\ shook'[n] = shook[n]
           \/ iface'[n] = None /\ ~shook'[n]
    PROVE  NegotiationInv'
<1>1. Records(n)
    BY DEF Records
<1>2. Knows(n)'
    BY DEF Knows, Agreed
<1>3. Hosts(n)'
  <2>1. Hosts(n)
    BY DEF NegotiationInv
  <2> QED BY <2>1 DEF Hosts, Waiting
<1> QED BY <1>1, <1>2, <1>3, StepKeeps

(* End and Crash clear what belongs to the attempt.                        *)
LEMMA ClearType ==
    ASSUME TypeOK, NEW n \in Node, ClearAttempt(n)
    PROVE  /\ sess' \in [Node -> Id \cup {None}] /\ peerKey' \in [Node -> Id \cup {None}]
           /\ expired' \in [Node -> BOOLEAN] /\ proven' \in [Node -> BOOLEAN]
           /\ got' \in [Node -> SUBSET Message] /\ held' \in [Node -> SUBSET Message]
           /\ held'[n] = {}
           /\ \A q \in Node \ {n} :
                sess'[q] = sess[q] /\ peerKey'[q] = peerKey[q] /\ held'[q] = held[q]
BY DEF TypeOK, ClearAttempt

(* An attempt that ends with the host, the record and the count of         *)
(* attempts as they are.                                                   *)
LEMMA EndKeeps ==
    ASSUME NegotiationInv, NEW n \in Node, NEW asked \in {"auto", "initiator"},
           phase[n] # "down", End(n, asked), Says(n),
           \A m \in sent' \ sent : m.kind # "offer",
           UNCHANGED <<attempt, role, recordVars, mirrors, crashes>>,
           UNCHANGED <<iface, shook>> \/ RemoveInterface(n)
    PROVE  NegotiationInv'
<1>a. TypeOK
    BY DEF NegotiationInv
<1>b. /\ phase' = [phase EXCEPT ![n] = "idle"] /\ next' = [next EXCEPT ![n] = asked]
      /\ ClearAttempt(n)
    BY DEF End, Goto
<1>c. /\ sess' \in [Node -> Id \cup {None}] /\ peerKey' \in [Node -> Id \cup {None}]
      /\ expired' \in [Node -> BOOLEAN] /\ proven' \in [Node -> BOOLEAN]
      /\ got' \in [Node -> SUBSET Message] /\ held' \in [Node -> SUBSET Message]
      /\ held'[n] = {}
      /\ \A q \in Node \ {n} :
           sess'[q] = sess[q] /\ peerKey'[q] = peerKey[q] /\ held'[q] = held[q]
    BY <1>a, <1>b, ClearType
<1>d. sent' \subseteq Message
    BY <1>a DEF Says, TypeOK
<1>e. /\ iface' \in [Node -> Keys \cup {None}] /\ shook' \in [Node -> BOOLEAN]
      /\ \A q \in Node \ {n} : iface'[q] = iface[q] /\ shook'[q] = shook[q]
      /\ \/ iface'[n] = iface[n] /\ shook'[n] = shook[n]
         \/ iface'[n] = None /\ ~shook'[n]
    BY <1>a, ZenonT(60) DEF TypeOK, RemoveInterface
<1>1. TypeOK'
    BY <1>a, <1>b, <1>c, <1>d, <1>e DEF TypeOK, Phase, recordVars
<1>2. Onward
    BY <1>a, NegotiationAssumption DEF Onward, TypeOK
<1>3. Apart(n)
    BY <1>a, <1>b, <1>c, <1>e DEF Apart, TypeOK
<1>4. OffersRecorded' /\ AnsweredOnce'
  <2>1. \A q \in Node : phase'[q] # "down" => phase[q] # "down"
    BY <1>a, <1>b DEF TypeOK
  <2> QED BY <2>1, RecordKept
<1>5. phase'[n] = "idle"
    BY <1>a, <1>b DEF TypeOK
<1> QED BY <1>1, <1>2, <1>3, <1>4, <1>5, <1>c, <1>e, OverKeeps

(* A publication that too few relays accepted.                             *)
LEMMA RefusedKeeps ==
    ASSUME NegotiationInv, NEW n \in Node, NEW m \in Message, m.from = n, Sayable(n, m),
           m.kind # "offer", phase[n] # "down", PublishRefused(n, m),
           UNCHANGED <<attempt, role, recordVars, hostVars, crashes>>
    PROVE  NegotiationInv'
<1>1. Says(n) /\ \A o \in sent' \ sent : o.kind # "offer"
    BY DEF Says, PublishRefused
<1> QED BY <1>1, EndKeeps DEF PublishRefused, hostVars

(* A new attempt's id is in no message and on no interface.                *)
LEMMA NextIdIsNew ==
    ASSUME NegotiationInv, NEW n \in Node, attempt[n] < MaxAttempts,
           attempt' = [attempt EXCEPT ![n] = @ + 1]
    PROVE  /\ Onward /\ Own(n)' = <<n, attempt[n] + 1>> /\ Own(n)' \in Id
           /\ \A q \in Node \ {n} : attempt'[q] = attempt[q]
           /\ \A m \in sent : /\ m.kind = "offer" => m.key # Own(n)'
                              /\ m.kind = "accept" => m.sess # Own(n)'
           /\ \A t \in mirrors : t.key # Own(n)'
<1>a. TypeOK /\ MessagesSound /\ MirrorsRest
    BY DEF NegotiationInv
<1>b. attempt \in [Node -> 0..MaxAttempts] /\ MaxAttempts \in Nat
    BY <1>a, NegotiationAssumption DEF TypeOK
<1>c. attempt'[n] = attempt[n] + 1 /\ attempt[n] + 1 \in 1..MaxAttempts
    BY <1>b
<1>1. Onward /\ \A q \in Node \ {n} : attempt'[q] = attempt[q]
    BY <1>b, <1>c DEF Onward
<1>2. Own(n)' = <<n, attempt[n] + 1>>
    BY <1>c DEF Own
<1>3. Own(n)' \in Id /\ Own(n)'[1] = n /\ Own(n)'[2] = attempt[n] + 1
    BY <1>2, <1>c, IdType
<1>4. ~(attempt[n] + 1 <= attempt[n])
    BY <1>b
<1>5. ASSUME NEW m \in sent
      PROVE  /\ m.kind = "offer" => m.key # Own(n)'
             /\ m.kind = "accept" => m.sess # Own(n)'
    BY <1>a, <1>3, <1>4 DEF MessagesSound
<1>6. ASSUME NEW t \in mirrors
      PROVE  t.key # Own(n)'
    BY <1>a, <1>3, <1>4 DEF MirrorsRest
<1> QED BY <1>1, <1>2, <1>3, <1>5, <1>6

(* Starting an attempt, as either side, and failing to.                    *)
LEMMA StartKeeps ==
    ASSUME NegotiationInv, NEW n \in Node, StartAttempt(n)
    PROVE  NegotiationInv'
<1> DEFINE id == <<n, attempt[n] + 1>>
           m  == Msg(n, "request", id, id)
<1>a. TypeOK
    BY DEF NegotiationInv
<1>b. /\ phase[n] = "idle" /\ attempt[n] < MaxAttempts /\ iface[n] = None
      /\ attempt' = [attempt EXCEPT ![n] = @ + 1]
      /\ role' = [role EXCEPT ![n] = ResolveRole(n, next[n])]
      /\ UNCHANGED <<recordVars, hostVars, crashes>>
    BY DEF StartAttempt
<1>c. /\ Onward /\ Own(n)' = id /\ id \in Id
      /\ \A q \in Node \ {n} : attempt'[q] = attempt[q]
      /\ \A o \in sent : /\ o.kind = "offer" => o.key # id
                         /\ o.kind = "accept" => o.sess # id
      /\ \A t \in mirrors : t.key # id
    BY <1>b, NextIdIsNew
<1>d. m \in Message /\ m.from = n /\ m.kind = "request" /\ m.sess = id /\ m.key = id
    BY <1>c, MessageType DEF Kind
<1>e. id[1] = n /\ id[2] = attempt'[n] /\ attempt'[n] \in Nat
    BY <1>a, <1>b DEF TypeOK
<1> HIDE DEF id, m
<1>f. Sayable(n, m)
    BY <1>d, <1>e DEF Sayable
<1>g. /\ attempt' \in [Node -> 0..MaxAttempts] /\ held[n] = {} /\ shook[n] = FALSE
      /\ role' \in [Node -> {"initiator", "responder"}]
    BY <1>a, <1>b, <1>c, SMTT(30) DEF TypeOK, Onward, ResolveRole, NegotiationInv, Knows, Hosts
<1>h. Subscribe(n) => got' \in [Node -> SUBSET Message]
    BY <1>a DEF Subscribe, TypeOK
<1>1. CASE /\ Goto(n, "awaitRequest") /\ Subscribe(n)
           /\ UNCHANGED <<sent, next, sess, peerKey, expired, held, proven>>
  <2>1. TypeOK'
    BY <1>1, <1>a, <1>b, <1>g, <1>h DEF Goto, TypeOK, Phase, recordVars, hostVars
  <2>2. phase' = [phase EXCEPT ![n] = "awaitRequest"] /\ phase'[n] = "awaitRequest"
    BY <1>1, <1>a DEF Goto, TypeOK
  <2>3. Says(n) /\ Apart(n) /\ Records(n)
    BY <1>1, <1>a, <1>b, <1>c, <2>2 DEF Says, Apart, Records, hostVars, TypeOK
  <2>4. OffersRecorded' /\ AnsweredOnce'
    <3>1. \A q \in Node : phase'[q] # "down" => phase[q] # "down"
      BY <1>a, <1>b, <2>2 DEF TypeOK
    <3> QED BY <1>1, <1>b, <3>1, RecordKept
  <2>5. Knows(n)'
    BY <1>1, <1>c, <1>g, <2>2 DEF Knows, Unsaid, Agreed
  <2>6. Hosts(n)'
    BY <1>b, <1>c, <1>g, <2>2 DEF Hosts, Waiting, hostVars
  <2> QED BY <1>c, <2>1, <2>2, <2>3, <2>4, <2>5, <2>6, StepKeeps
<1>2. CASE /\ Goto(n, "awaitOffer") /\ Subscribe(n)
           /\ sess' = [sess EXCEPT ![n] = id] /\ sent' = sent \cup {m}
           /\ UNCHANGED <<next, peerKey, expired, held, proven>>
  <2>1. TypeOK'
    BY <1>2, <1>a, <1>b, <1>c, <1>d, <1>g, <1>h DEF Goto, TypeOK, Phase, recordVars, hostVars
  <2>2. phase' = [phase EXCEPT ![n] = "awaitOffer"] /\ phase'[n] = "awaitOffer" /\ sess'[n] = id
    BY <1>2, <1>a DEF Goto, TypeOK
  <2>3. Says(n) /\ Apart(n) /\ Records(n)
    BY <1>2, <1>a, <1>b, <1>c, <1>d, <1>f, <2>2 DEF Says, Apart, Records, hostVars, TypeOK
  <2>4. OffersRecorded' /\ AnsweredOnce'
    <3>1. \A q \in Node : phase'[q] # "down" => phase[q] # "down"
      BY <1>a, <1>b, <2>2 DEF TypeOK
    <3> QED BY <1>2, <1>b, <1>d, <3>1, RecordKept
  <2>5. Knows(n)'
    BY <1>2, <1>c, <1>d, <1>g, <2>2 DEF Knows, Unsaid, Agreed
  <2>6. Hosts(n)'
    BY <1>b, <1>c, <1>g, <2>2 DEF Hosts, Waiting, hostVars
  <2> QED BY <1>c, <2>1, <2>2, <2>3, <2>4, <2>5, <2>6, StepKeeps
<1>3. CASE PublishRefused(n, m)
  <2>1. phase' = [phase EXCEPT ![n] = "idle"] /\ next' = [next EXCEPT ![n] = "auto"]
    BY <1>3 DEF PublishRefused, End, Goto
  <2>2. /\ sess' \in [Node -> Id \cup {None}] /\ peerKey' \in [Node -> Id \cup {None}]
        /\ expired' \in [Node -> BOOLEAN] /\ proven' \in [Node -> BOOLEAN]
        /\ got' \in [Node -> SUBSET Message] /\ held' \in [Node -> SUBSET Message]
        /\ held'[n] = {}
        /\ \A q \in Node \ {n} :
             sess'[q] = sess[q] /\ peerKey'[q] = peerKey[q] /\ held'[q] = held[q]
    BY <1>3, <1>a, ClearType DEF PublishRefused, End
  <2>3. TypeOK'
    BY <1>3, <1>a, <1>b, <1>d, <1>g, <2>1, <2>2, ZenonT(60) DEF PublishRefused, TypeOK, Phase, recordVars, hostVars
  <2>4. Says(n) /\ Apart(n)
    BY <1>3, <1>a, <1>b, <1>c, <1>d, <1>f, <2>1, <2>2 DEF PublishRefused, Says, Apart, hostVars, TypeOK
  <2>5. OffersRecorded' /\ AnsweredOnce'
    <3>1. \A q \in Node : phase'[q] # "down" => phase[q] # "down"
      BY <1>a, <1>b, <2>1 DEF TypeOK
    <3> QED BY <1>3, <1>b, <1>d, <3>1, RecordKept DEF PublishRefused
  <2>6. phase'[n] = "idle" /\ mirrors' = mirrors /\ iface'[n] = iface[n] /\ shook'[n] = shook[n]
    BY <1>a, <1>b, <2>1 DEF TypeOK, hostVars
  <2> QED BY <1>c, <2>2, <2>3, <2>4, <2>5, <2>6, OverKeeps
<1> QED BY <1>1, <1>2, <1>3 DEF StartAttempt, id, m

(* An attempt that cannot bind its port is over before it began.           *)
LEMMA PortHeldKeeps ==
    ASSUME NegotiationInv, NEW n \in Node, PortHeld(n)
    PROVE  NegotiationInv'
<1>a. TypeOK
    BY DEF NegotiationInv
<1>b. Onward /\ \A q \in Node \ {n} : attempt'[q] = attempt[q]
    BY NextIdIsNew DEF PortHeld
<1>1. TypeOK'
    BY <1>a, <1>b DEF PortHeld, TypeOK, Onward, attemptVars, recordVars, hostVars
<1>2. Says(n) /\ Apart(n)
    BY <1>b DEF PortHeld, Says, Apart, attemptVars, hostVars
<1>3. OffersRecorded' /\ AnsweredOnce'
    BY RecordKept DEF PortHeld
<1>4. /\ phase'[n] = "idle" /\ held'[n] = {} /\ mirrors' = mirrors
      /\ iface'[n] = iface[n] /\ shook'[n] = shook[n]
    BY DEF PortHeld, attemptVars, hostVars, NegotiationInv, Knows
<1> QED BY <1>b, <1>1, <1>2, <1>3, <1>4, OverKeeps

(* What an awaited message is: one of the peer's, and in the session of an *)
(* attempt that has opened it.                                             *)
LEMMA AwaitedType ==
    ASSUME NegotiationInv, NEW n \in Node, NEW m \in sent, Awaited(n, m)
    PROVE  /\ m \in Message /\ m.from = Peer(n) /\ m.kind = Wanted(n)
           /\ phase[n] = "awaitOffer" => m.sess = sess[n]
<1>1. m.from = Peer(n)
    BY DEF Awaited, Deliverable, NegotiationInv, Knows
<1>2. ASSUME phase[n] = "awaitOffer" PROVE m.sess = sess[n]
  <2>1. sess[n] = Own(n) /\ Own(n) \in Id /\ \A o \in held[n] : o.sess = sess[n]
    BY <1>2 DEF NegotiationInv, Knows
  <2> QED BY <2>1, NoneAssumption DEF Awaited, MatchesSession
<1> QED BY <1>1, <1>2 DEF Awaited, NegotiationInv, TypeOK

(* Reading without acting on it: a message is refused, kept for later or   *)
(* passed over.                                                            *)
LEMMA ReadKeeps ==
    ASSUME NegotiationInv, NEW n \in Node, NEW m \in sent,
           Refuse(n, m) \/ Keep(n, m) \/ SkipStale(n, m)
    PROVE  NegotiationInv'
<1>a. TypeOK /\ m \in Message /\ Knows(n) /\ Hosts(n)
    BY DEF NegotiationInv, TypeOK
<1>1. CASE Refuse(n, m)
  <2>1. TypeOK'
    BY <1>1, <1>a DEF Refuse, TypeOK, recordVars, hostVars
  <2> QED BY <1>1, <2>1, QuietKeeps DEF Refuse
<1>2. CASE Keep(n, m) \/ SkipStale(n, m)
  <2>1. /\ UNCHANGED <<phase, attempt, next, role, sess, peerKey, expired, proven,
                       sent, recordVars, hostVars, crashes>>
        /\ got' = [got EXCEPT ![n] = @ \cup {m}]
        /\ phase[n] \in Waiting
    BY <1>2 DEF Keep, SkipStale, Take
  <2>2. PICK kept \in SUBSET Message :
            /\ held' = [held EXCEPT ![n] = kept]
            /\ kept \subseteq held[n] \cup {m}
            /\ kept \subseteq held[n] \/ (m.from = Peer(n) /\ MatchesSession(n, m))
    <3>1. held[n] \subseteq Message
      BY <1>a DEF TypeOK
    <3>2. CASE SkipStale(n, m)
      BY <3>1, <3>2 DEF SkipStale, Drop
    <3>3. CASE Keep(n, m)
      BY <3>1, <3>3, <1>a DEF Keep, Deliverable
    <3> QED BY <1>2, <3>2, <3>3
  <2>3. held'[n] = kept /\ \A q \in Node \ {n} : held'[q] = held[q]
    BY <1>a, <2>2 DEF TypeOK
  <2>4. TypeOK'
    BY <1>a, <2>1, <2>2 DEF TypeOK, recordVars, hostVars
  <2>5. Onward /\ Says(n) /\ Apart(n) /\ Records(n)
    BY <1>a, <2>1, <2>3, NegotiationAssumption DEF Onward, Says, Apart, Records, TypeOK, hostVars
  <2>6. OffersRecorded' /\ AnsweredOnce'
    BY <2>1, RecordKept
  <2>7. Own(n)' = Own(n) /\ AgreedOn(n)' = AgreedOn(n)
    BY <2>1 DEF Own, AgreedOn
  <2>8. Knows(n)'
    <3>1. kept \subseteq {o \in sent : o.from = Peer(n)}
      BY <1>a, <2>2 DEF Knows
    <3>2. phase[n] = "awaitOffer" => \A o \in kept : o.sess = sess[n]
      BY <1>a, <2>2, NoneAssumption DEF Knows, MatchesSession
    <3>3. phase[n] \notin {"idle", "down"}
      BY <2>1 DEF Waiting
    <3> QED BY <1>a, <2>1, <2>3, <2>7, <3>1, <3>2, <3>3 DEF Knows, Unsaid, RestsOn
  <2>9. Hosts(n)'
    BY <1>a, <2>1, <2>7 DEF Hosts, hostVars
  <2>10. phase'[n] # "established"
    BY <2>1 DEF Waiting
  <2> QED BY <2>4, <2>5, <2>6, <2>8, <2>9, <2>10, StepKeeps
<1> QED BY <1>1, <1>2

(* The record of an answered session: the new offer is the first in its    *)
(* session, or an earlier one could not be recorded.                       *)
LEMMA RecordAttemptKeeps ==
    ASSUME NegotiationInv, NEW n \in Node, NEW s \in Id, NEW k \in Id,
           s[1] = Peer(n), s \notin answered[n], phase[n] # "down", RecordAttempt(n, s),
           \A q \in Node : phase'[q] # "down" => phase[q] # "down",
           sent' \in {sent, sent \cup {Msg(n, "offer", s, k)}}
    PROVE  /\ OffersRecorded' /\ AnsweredOnce'
           /\ answered' \in [Node -> SUBSET Id] /\ stored' \in [Node -> SUBSET Id]
           /\ lost' \subseteq Id
<1>a. /\ TypeOK /\ MessagesSound /\ OffersRecorded /\ AnsweredOnce /\ sent \subseteq Message
      /\ answered \in [Node -> SUBSET Id] /\ stored \in [Node -> SUBSET Id]
    BY DEF NegotiationInv, TypeOK
<1>1. /\ answered' \in [Node -> SUBSET Id] /\ stored' \in [Node -> SUBSET Id]
      /\ lost' \subseteq Id
      /\ \A q \in Node \ {n} : answered'[q] = answered[q] /\ stored'[q] = stored[q]
      /\ answered'[n] = answered[n] \cup {s}
      /\ stored'[n] = answered[n] \cup {s} \/ (stored'[n] = stored[n] /\ s \in lost')
      /\ lost \subseteq lost'
  <2>1. /\ answered' \in [Node -> SUBSET Id] /\ answered'[n] = answered[n] \cup {s}
        /\ \A q \in Node \ {n} : answered'[q] = answered[q]
    BY <1>a DEF RecordAttempt
  <2>2. CASE stored' = [stored EXCEPT ![n] = answered'[n]] /\ UNCHANGED lost
    BY <1>a, <2>1, <2>2 DEF TypeOK
  <2>3. CASE UNCHANGED stored /\ lost' = lost \cup {s}
    BY <1>a, <2>1, <2>3 DEF TypeOK
  <2> QED BY <2>2, <2>3 DEF RecordAttempt
<1>2. stored[n] \subseteq answered[n] \cup lost
    BY <1>a DEF OffersRecorded
<1>3. \A q \in Node : stored[q] \subseteq stored'[q] \cup lost'
    BY <1>1, <1>2
<1>4. OffersRecorded'
  <2>1. \A q \in Node : phase'[q] # "down" => stored'[q] \subseteq answered'[q] \cup lost'
    <3>1. \A q \in Node \ {n} : phase'[q] # "down" => stored'[q] \subseteq answered'[q] \cup lost'
      BY <1>a, <1>1 DEF OffersRecorded
    <3>2. stored'[n] \subseteq answered'[n] \cup lost'
      BY <1>1, <1>2
    <3> QED BY <3>1, <3>2
  <2>2. ASSUME NEW o \in sent', o.kind = "offer"
        PROVE  o.sess \in stored'[o.from] \cup lost'
    <3>1. CASE o \in sent
      BY <1>a, <1>1, <1>3, <2>2, <3>1, MessageType DEF OffersRecorded
    <3>2. CASE o = Msg(n, "offer", s, k)
      <4>1. o.from = n /\ o.sess = s
        BY <3>2, MessageType DEF Kind
      <4> QED BY <1>1, <4>1
    <3> QED BY <3>1, <3>2
  <2> QED BY <2>1, <2>2 DEF OffersRecorded
<1>5. ASSUME NEW o \in sent, o.kind = "offer", o.sess = s
      PROVE  s \in lost'
  <2>1. o.from = n
    <3>1. o.from \in Node /\ Peer(o.from) = Peer(n)
      BY <1>a, <1>5, MessageType DEF MessagesSound
    <3> QED BY <3>1, PeerType
  <2> QED BY <1>a, <1>1, <1>2, <1>5, <2>1 DEF OffersRecorded
<1>6. AnsweredOnce'
  <2>1. Msg(n, "offer", s, k).sess = s
    BY MessageType DEF Kind
  <2> QED BY <1>a, <1>1, <1>5, <2>1 DEF AnsweredOnce
<1> QED BY <1>1, <1>4, <1>6

(* The responder's answer: its attempt's only offer.                       *)
LEMMA AnswerKeeps ==
    ASSUME NegotiationInv, NEW n \in Node, NEW m \in sent, AnswerRequest(n, m)
    PROVE  NegotiationInv'
<1> DEFINE offer == Msg(n, "offer", m.sess, Own(n))
<1>a. TypeOK /\ Knows(n) /\ Hosts(n) /\ MessagesSound
    BY DEF NegotiationInv
<1>b. /\ phase[n] = "awaitRequest" /\ Awaited(n, m) /\ ~PassesOver(n, m)
      /\ RecordAttempt(n, m.sess) /\ UNCHANGED <<attempt, role, hostVars, crashes>>
    BY DEF AnswerRequest
<1>c. m \in Message /\ m.from = Peer(n) /\ m.kind = "request"
    BY <1>b, AwaitedType DEF Wanted
<1>d. /\ m.sess \in Id /\ m.key = m.sess /\ m.sess[1] = Peer(n) /\ m.sess \notin answered[n]
      /\ Own(n) \in Id /\ Unsaid(n)
    BY <1>a, <1>b, <1>c, MessageType DEF MessagesSound, PassesOver, Knows
<1>e. /\ offer \in Message /\ offer.from = n /\ offer.kind = "offer"
      /\ offer.sess = m.sess /\ offer.key = Own(n)
    BY <1>d, MessageType DEF Kind
<1>f. attempt'[n] \in Nat /\ Own(n)[1] = n /\ Own(n)[2] = attempt'[n] /\ Own(n)' = Own(n)
    BY <1>a, <1>b, OwnType DEF TypeOK, Own
<1> HIDE DEF offer
<1>g. Sayable(n, offer)
    BY <1>d, <1>e, <1>f DEF Sayable, Unsaid
<1>h. Onward
    BY <1>a, <1>b, NegotiationAssumption DEF Onward, TypeOK
<1>i. sent' \in {sent, sent \cup {offer}}
    BY DEF AnswerRequest, PublishRefused, offer
<1>j. Says(n) /\ sent' \subseteq Message
    BY <1>a, <1>e, <1>g, <1>i DEF Says, TypeOK
<1>k. (\A q \in Node : phase'[q] # "down" => phase[q] # "down") =>
        /\ OffersRecorded' /\ AnsweredOnce'
        /\ answered' \in [Node -> SUBSET Id] /\ stored' \in [Node -> SUBSET Id]
        /\ lost' \subseteq Id
    BY <1>b, <1>d, <1>i, RecordAttemptKeeps DEF offer
<1>1. CASE /\ Goto(n, "awaitAccept") /\ Take(n, m)
           /\ sess' = [sess EXCEPT ![n] = m.sess]
           /\ peerKey' = [peerKey EXCEPT ![n] = m.key]
           /\ Drop(n, m) /\ sent' = sent \cup {offer}
           /\ UNCHANGED <<next, expired, proven>>
  <2>1. phase' = [phase EXCEPT ![n] = "awaitAccept"] /\ phase'[n] = "awaitAccept"
    BY <1>1, <1>a DEF Goto, TypeOK
  <2>2. \A q \in Node : phase'[q] # "down" => phase[q] # "down"
    BY <1>a, <1>b, <2>1 DEF TypeOK
  <2>3. TypeOK'
    BY <1>1, <1>a, <1>b, <1>c, <1>d, <1>j, <1>k, <2>1, <2>2
       DEF TypeOK, Phase, Take, Drop, hostVars
  <2>4. Apart(n) /\ Records(n)
    BY <1>1, <1>a, <1>b, <2>1 DEF Apart, Records, TypeOK, Drop, hostVars
  <2>5. Knows(n)'
    <3>1. held'[n] \subseteq held[n] /\ sess'[n] = m.sess /\ peerKey'[n] = m.sess
      BY <1>1, <1>a, <1>d DEF TypeOK, Drop
    <3>2. held'[n] \subseteq {o \in sent' : o.from = Peer(n)}
      BY <1>1, <1>a, <3>1 DEF Knows
    <3>3. Msg(n, "offer", sess'[n], Own(n)') \in sent'
      BY <1>1, <1>f, <3>1 DEF offer
    <3> QED BY <1>d, <1>f, <2>1, <3>1, <3>2, <3>3 DEF Knows, Agreed
  <2>6. Hosts(n)'
    BY <1>a, <1>b, <1>f, <2>1 DEF Hosts, Waiting, hostVars
  <2> QED BY <1>h, <1>j, <1>k, <2>1, <2>2, <2>3, <2>4, <2>5, <2>6, StepKeeps
<1>2. CASE PublishRefused(n, offer)
  <2>1. phase' = [phase EXCEPT ![n] = "idle"] /\ next' = [next EXCEPT ![n] = "auto"]
    BY <1>2 DEF PublishRefused, End, Goto
  <2>2. /\ sess' \in [Node -> Id \cup {None}] /\ peerKey' \in [Node -> Id \cup {None}]
        /\ expired' \in [Node -> BOOLEAN] /\ proven' \in [Node -> BOOLEAN]
        /\ got' \in [Node -> SUBSET Message] /\ held' \in [Node -> SUBSET Message]
        /\ held'[n] = {}
        /\ \A q \in Node \ {n} :
             sess'[q] = sess[q] /\ peerKey'[q] = peerKey[q] /\ held'[q] = held[q]
    BY <1>2, <1>a, ClearType DEF PublishRefused, End
  <2>3. \A q \in Node : phase'[q] # "down" => phase[q] # "down"
    BY <1>a, <1>b, <2>1 DEF TypeOK
  <2>4. TypeOK'
    BY <1>a, <1>b, <1>j, <1>k, <2>1, <2>2, <2>3 DEF TypeOK, Phase, hostVars
  <2>5. Apart(n) /\ phase'[n] = "idle"
    BY <1>a, <1>b, <2>1, <2>2 DEF Apart, hostVars, TypeOK
  <2>6. mirrors' = mirrors /\ iface'[n] = iface[n] /\ shook'[n] = shook[n]
    BY <1>b DEF hostVars
  <2> QED BY <1>h, <1>j, <1>k, <2>2, <2>3, <2>4, <2>5, <2>6, OverKeeps
<1> QED BY <1>1, <1>2 DEF AnswerRequest, offer

(* The step of a driver that goes on, says what is sayable and no offer,   *)
(* and leaves the record, the host and the count of attempts alone.        *)
LEMMA GoesOn ==
    ASSUME NegotiationInv, NEW n \in Node, NEW to \in Phase \ {"down"}, phase[n] # "down",
           Goto(n, to), Says(n), \A m \in sent' \ sent : m.kind # "offer",
           UNCHANGED <<attempt, role, next, sess, expired, proven, recordVars, hostVars, crashes>>,
           peerKey' \in [Node -> Id \cup {None}], got' \in [Node -> SUBSET Message],
           held' \in [Node -> SUBSET Message],
           \A q \in Node \ {n} : peerKey'[q] = peerKey[q] /\ held'[q] = held[q],
           Knows(n)', Hosts(n)',
           to = "established" =>
                [sess |-> sess'[n], key |-> peerKey'[n], peer |-> Own(n)'] \in mirrors'
    PROVE  NegotiationInv'
<1>a. TypeOK
    BY DEF NegotiationInv
<1>1. phase' = [phase EXCEPT ![n] = to] /\ phase'[n] = to /\ sent' \subseteq Message
    BY <1>a DEF Goto, Says, TypeOK
<1>2. TypeOK'
    BY <1>a, <1>1 DEF TypeOK, recordVars, hostVars
<1>3. Onward /\ Apart(n) /\ Records(n)
    BY <1>a, <1>1, NegotiationAssumption DEF Onward, Apart, Records, TypeOK, hostVars
<1>4. OffersRecorded' /\ AnsweredOnce'
  <2>1. \A q \in Node : phase'[q] # "down" => phase[q] # "down"
    BY <1>a, <1>1 DEF TypeOK
  <2> QED BY <2>1, RecordKept
<1> QED BY <1>1, <1>2, <1>3, <1>4, StepKeeps

(* The initiator's acceptance: its attempt's only one, of an offer in its  *)
(* own session.                                                            *)
LEMMA AcceptKeeps ==
    ASSUME NegotiationInv, NEW n \in Node, NEW m \in sent, AcceptOffer(n, m)
    PROVE  NegotiationInv'
<1> DEFINE accept == Msg(n, "accept", sess[n], m.key)
<1>a. TypeOK /\ Knows(n) /\ Hosts(n) /\ MessagesSound
    BY DEF NegotiationInv
<1>b. /\ phase[n] = "awaitOffer" /\ Awaited(n, m)
      /\ UNCHANGED <<attempt, role, recordVars, hostVars, crashes>>
    BY DEF AcceptOffer
<1>c. m \in Message /\ m.from = Peer(n) /\ m.kind = "offer" /\ m.sess = sess[n]
    BY <1>b, AwaitedType DEF Wanted
<1>d. m.key \in Id /\ sess[n] = Own(n) /\ Own(n) \in Id /\ Unsaid(n)
    BY <1>a, <1>b, <1>c, MessageType DEF Knows
<1>e. /\ accept \in Message /\ accept.from = n /\ accept.kind = "accept"
      /\ accept.sess = Own(n) /\ accept.key = m.key
    BY <1>d, MessageType DEF Kind
<1>f. attempt'[n] \in Nat /\ Own(n)[1] = n /\ Own(n)[2] = attempt'[n] /\ Own(n)' = Own(n)
    BY <1>a, <1>b, OwnType DEF TypeOK, Own
<1>g. Msg(Peer(n), "offer", Own(n), m.key) \in sent
    BY <1>c, <1>d, MessageType
<1> HIDE DEF accept
<1>h. Sayable(n, accept)
    BY <1>d, <1>e, <1>f, <1>g DEF Sayable, Unsaid
<1>1. CASE /\ Goto(n, "gather") /\ Take(n, m)
           /\ peerKey' = [peerKey EXCEPT ![n] = m.key]
           /\ Drop(n, m) /\ sent' = sent \cup {accept}
           /\ UNCHANGED <<next, sess, expired, proven>>
  <2>1. phase'[n] = "gather" /\ peerKey'[n] = m.key /\ held'[n] \subseteq held[n]
    BY <1>1, <1>a DEF Goto, TypeOK, Drop
  <2>2. Says(n) /\ \A o \in sent' \ sent : o.kind # "offer"
    BY <1>1, <1>e, <1>h DEF Says
  <2>3. /\ peerKey' \in [Node -> Id \cup {None}] /\ got' \in [Node -> SUBSET Message]
        /\ held' \in [Node -> SUBSET Message]
        /\ \A q \in Node \ {n} : peerKey'[q] = peerKey[q] /\ held'[q] = held[q]
    BY <1>1, <1>a, <1>c, <1>d DEF TypeOK, Take, Drop
  <2>4. RestsOn(n, AgreedOn(n))'
    BY <1>1, <1>d, <1>f, <2>1 DEF RestsOn, AgreedOn, accept
  <2>5. Knows(n)'
    BY <1>1, <1>a, <1>d, <1>f, <2>1, <2>4 DEF Knows
  <2>6. Hosts(n)'
    BY <1>a, <1>b, <1>f, <2>1 DEF Hosts, Waiting, hostVars
  <2> QED BY <1>1, <1>b, <2>2, <2>3, <2>5, <2>6, GoesOn DEF Phase
<1>2. CASE PublishRefused(n, accept)
    BY <1>2, <1>b, <1>e, <1>h, RefusedKeeps
<1>3. CASE End(n, "auto") /\ UNCHANGED sent
    BY <1>3, <1>b, EndKeeps DEF Says, hostVars
<1> QED BY <1>1, <1>2, <1>3 DEF AcceptOffer, accept

(* The responder goes on only with an acceptance of its own offer, which   *)
(* is one in its session.                                                  *)
LEMMA AcceptedKeeps ==
    ASSUME NegotiationInv, NEW n \in Node, NEW m \in sent, ReceiveAccept(n, m)
    PROVE  NegotiationInv'
<1>a. TypeOK /\ Knows(n) /\ Hosts(n) /\ MessagesSound /\ OnePerAttempt
    BY DEF NegotiationInv
<1>b. /\ phase[n] = "awaitAccept" /\ Awaited(n, m) /\ ~PassesOver(n, m)
      /\ UNCHANGED <<attempt, role, sent, recordVars, hostVars, crashes>>
    BY DEF ReceiveAccept
<1>c. m \in Message /\ m.from = Peer(n) /\ m.kind = "accept"
    BY <1>b, AwaitedType DEF Wanted
<1>d. /\ m.key = Own(n) /\ Own(n) \in Id /\ m.sess \in Id
      /\ sess[n] \in Id /\ peerKey[n] = sess[n] /\ Msg(n, "offer", sess[n], Own(n)) \in sent
    BY <1>a, <1>b, <1>c, MessageType DEF Knows, PassesOver
<1>e. m.sess = sess[n]
  <2>1. Msg(n, "offer", m.sess, Own(n)) \in sent
    BY <1>a, <1>c, <1>d, PeerType DEF MessagesSound
  <2>2. Msg(n, "offer", m.sess, Own(n)) = Msg(n, "offer", sess[n], Own(n))
    BY <1>a, <1>d, <2>1, MessageType DEF OnePerAttempt, Kind
  <2> QED BY <1>d, <2>2, MessageType DEF Kind
<1>f. Own(n)' = Own(n) /\ Says(n)
    BY <1>b DEF Own, Says
<1>1. CASE /\ Goto(n, "gather") /\ Take(n, m) /\ Drop(n, m)
           /\ UNCHANGED <<next, sess, peerKey, expired, proven>>
  <2>1. phase'[n] = "gather" /\ held'[n] \subseteq held[n]
    BY <1>1, <1>a DEF Goto, TypeOK, Drop
  <2>2. /\ peerKey' \in [Node -> Id \cup {None}] /\ got' \in [Node -> SUBSET Message]
        /\ held' \in [Node -> SUBSET Message]
        /\ \A q \in Node \ {n} : peerKey'[q] = peerKey[q] /\ held'[q] = held[q]
    BY <1>1, <1>a, <1>c DEF TypeOK, Take, Drop
  <2>3. Msg(Peer(n), "accept", sess[n], Own(n)) \in sent
    BY <1>c, <1>d, <1>e, MessageType
  <2>4. RestsOn(n, AgreedOn(n))'
    BY <1>1, <1>b, <1>d, <1>f, <2>3 DEF RestsOn, AgreedOn
  <2>5. Knows(n)'
    BY <1>1, <1>a, <1>b, <1>d, <1>f, <2>1, <2>4 DEF Knows
  <2>6. Hosts(n)'
    BY <1>a, <1>b, <1>f, <2>1 DEF Hosts, Waiting, hostVars
  <2> QED BY <1>1, <1>b, <1>f, <2>2, <2>5, <2>6, GoesOn DEF Phase
<1>2. CASE End(n, "auto")
    BY <1>2, <1>b, <1>f, EndKeeps DEF hostVars
<1> QED BY <1>1, <1>2 DEF ReceiveAccept

(* Candidates go out and come in; no agreement depends on them.            *)
LEMMA CandidatesKeep ==
    ASSUME NegotiationInv, NEW n \in Node,
           PublishCandidates(n) \/ \E m \in sent : ConsumeCandidates(n, m)
    PROVE  NegotiationInv'
<1>a. TypeOK /\ Knows(n) /\ Hosts(n)
    BY DEF NegotiationInv
<1>1. CASE PublishCandidates(n)
  <2> DEFINE m == Msg(n, "candidates", sess[n], Own(n))
  <2>1. /\ phase[n] = "gather" /\ sess[n] \in Id /\ peerKey[n] \in Id /\ Own(n) \in Id
        /\ RestsOn(n, AgreedOn(n))
        /\ UNCHANGED <<attempt, role, recordVars, hostVars, crashes>>
    BY <1>1, <1>a DEF PublishCandidates, Knows, Agreed
  <2>2. m \in Message /\ m.from = n /\ m.kind = "candidates"
    BY <2>1, MessageType DEF Kind
  <2> HIDE DEF m
  <2>3. Sayable(n, m) /\ Own(n)' = Own(n)
    BY <2>1, <2>2 DEF Sayable, Own
  <2>4. CASE Goto(n, "awaitCandidates") /\ sent' = sent \cup {m} /\ UNCHANGED <<next, attemptVars>>
    <3>1. Says(n) /\ \A o \in sent' \ sent : o.kind # "offer"
      BY <2>2, <2>3, <2>4 DEF Says
    <3>2. phase'[n] = "awaitCandidates"
      BY <1>a, <2>4 DEF Goto, TypeOK
    <3>3. RestsOn(n, AgreedOn(n))'
      BY <2>1, <2>3, <2>4 DEF RestsOn, AgreedOn, attemptVars
    <3>4. Knows(n)'
      BY <1>a, <2>1, <2>3, <2>4, <3>2, <3>3 DEF Knows, attemptVars
    <3>5. Hosts(n)'
      BY <1>a, <2>1, <2>3, <3>2 DEF Hosts, Waiting, hostVars
    <3>6. UNCHANGED <<sess, expired, proven>>
      BY <2>4 DEF attemptVars
    <3>7. /\ peerKey' \in [Node -> Id \cup {None}] /\ got' \in [Node -> SUBSET Message]
          /\ held' \in [Node -> SUBSET Message]
          /\ \A q \in Node \ {n} : peerKey'[q] = peerKey[q] /\ held'[q] = held[q]
      BY <1>a, <2>4 DEF TypeOK, attemptVars
    <3> QED BY <2>1, <2>4, <3>1, <3>4, <3>5, <3>6, <3>7, GoesOn DEF Phase
  <2>5. CASE PublishRefused(n, m)
    BY <2>1, <2>2, <2>3, <2>5, RefusedKeeps
  <2> QED BY <1>1, <2>4, <2>5 DEF PublishCandidates, m
<1>2. CASE \E m \in sent : ConsumeCandidates(n, m)
  <2> PICK m \in sent : ConsumeCandidates(n, m)
    BY <1>2
  <2> USE DEF ConsumeCandidates
  <2>1. phase'[n] = "checking" /\ held'[n] = {} /\ Own(n)' = Own(n) /\ Says(n)
    BY <1>a DEF Goto, TypeOK, Own, Says
  <2>2. RestsOn(n, AgreedOn(n))'
    BY <1>a, <2>1 DEF RestsOn, AgreedOn, Knows, Agreed
  <2>3. Knows(n)'
    BY <1>a, <2>1, <2>2 DEF Knows, Agreed
  <2>4. Hosts(n)'
    BY <1>a, <2>1 DEF Hosts, Waiting, hostVars
  <2>5. /\ peerKey' \in [Node -> Id \cup {None}] /\ got' \in [Node -> SUBSET Message]
        /\ held' \in [Node -> SUBSET Message]
        /\ \A q \in Node \ {n} : peerKey'[q] = peerKey[q] /\ held'[q] = held[q]
    BY <1>a DEF TypeOK
  <2> QED BY <2>1, <2>3, <2>4, <2>5, GoesOn DEF Phase
<1> QED BY <1>1, <1>2

(* Two agreements that name each other's keys are of one session, and one  *)
(* key serves one agreement: an attempt that accepted an offer made none.  *)
LEMMA AgreementsMatch ==
    ASSUME NegotiationInv, NEW n \in Node, NEW p \in Node, NEW a \in Agreement, NEW b \in Agreement,
           a.key[1] = n, b.key[1] = p, RestsOn(n, a), RestsOn(p, b)
    PROVE  /\ (a.key = b.peer /\ b.key = a.peer) => a.sess = b.sess
           /\ (n # p /\ a.sess = b.sess) => (a.key = b.peer /\ b.key = a.peer)
<1>a. MessagesSound /\ OnePerAttempt /\ sent \subseteq Message
    BY DEF NegotiationInv, TypeOK
<1>b. /\ a.sess \in Id /\ a.key \in Id /\ a.peer \in Id
      /\ b.sess \in Id /\ b.key \in Id /\ b.peer \in Id
    BY DEF Agreement
<1>c. ASSUME NEW k \in Node, NEW s \in Id, NEW x \in Id, Msg(k, "accept", s, x) \in sent
      PROVE  /\ s[1] = k /\ Msg(Peer(k), "offer", s, x) \in sent
             /\ \A j \in Node, r \in Id, y \in Id : Msg(j, "offer", r, y) \in sent => s # y
             /\ \A y \in Id : Msg(k, "accept", s, y) \in sent => x = y
  <2>1. s[1] = k /\ Msg(Peer(k), "offer", s, x) \in sent
    <3> DEFINE m == Msg(k, "accept", s, x)
    <3>1. m.kind = "accept" /\ m.from = k /\ m.sess = s /\ m.key = x
      BY MessageType DEF Kind
    <3> HIDE DEF m
    <3>2. m \in sent
      BY <1>c DEF m
    <3> QED BY <1>a, <3>1, <3>2 DEF MessagesSound
  <2>2. \A j \in Node, r \in Id, y \in Id : Msg(j, "offer", r, y) \in sent => s # y
    <3> SUFFICES ASSUME NEW j \in Node, NEW r \in Id, NEW y \in Id,
                        Msg(j, "offer", r, y) \in sent
                 PROVE  s # y
      OBVIOUS
    <3> DEFINE m == Msg(k, "accept", s, x)
               o == Msg(j, "offer", r, y)
    <3>1. m.kind = "accept" /\ m.sess = s /\ o.kind = "offer" /\ o.key = y
      BY MessageType DEF Kind
    <3>2. m \in sent /\ o \in sent
      BY <1>c
    <3> HIDE DEF m, o
    <3> QED BY <1>a, <3>1, <3>2 DEF OnePerAttempt
  <2>3. ASSUME NEW y \in Id, Msg(k, "accept", s, y) \in sent
        PROVE  x = y
    <3>1. Msg(k, "accept", s, x) = Msg(k, "accept", s, y)
      <4> DEFINE m == Msg(k, "accept", s, x)
                 o == Msg(k, "accept", s, y)
      <4>1. m.kind = "accept" /\ m.sess = s /\ o.kind = "accept" /\ o.sess = s
        BY MessageType DEF Kind
      <4>2. m \in sent /\ o \in sent
        BY <1>c, <2>3
      <4> HIDE DEF m, o
      <4>3. m = o
        BY <1>a, <4>1, <4>2 DEF OnePerAttempt
      <4> QED BY <4>3 DEF m, o
    <3> QED BY <3>1, MessageType DEF Kind
  <2> QED BY <2>1, <2>2, <2>3
<1>d. Peer(n) \in Node /\ Peer(p) \in Node /\ Peer(n) # n /\ Peer(p) # p
    BY PeerType
<1>e. n # p => p = Peer(n) /\ n = Peer(p)
    BY PeerType
<1>1. CASE /\ a.sess = a.key /\ Msg(n, "accept", a.sess, a.peer) \in sent
           /\ b.sess = b.key /\ Msg(p, "accept", b.sess, b.peer) \in sent
  <2>1. ~(b.key = a.peer)
    BY <1>1, <1>b, <1>c, <1>d
  <2>2. a.sess = b.sess => n = p
    BY <1>1
  <2> QED BY <2>1, <2>2
<1>2. CASE /\ a.sess = a.peer /\ Msg(Peer(n), "accept", a.sess, a.key) \in sent
           /\ b.sess = b.peer /\ Msg(Peer(p), "accept", b.sess, b.key) \in sent
  <2>1. a.sess[1] = Peer(n) /\ b.sess[1] = Peer(p)
    BY <1>2, <1>b, <1>c, <1>d
  <2>2. ~(b.key = a.peer)
    <3>1. Msg(Peer(Peer(p)), "offer", b.sess, b.key) \in sent /\ Peer(Peer(p)) \in Node
      BY <1>2, <1>b, <1>c, <1>d, PeerType
    <3> QED BY <1>2, <1>b, <1>c, <1>d, <3>1
  <2> QED BY <1>e, <1>d, <2>1, <2>2
<1>3. CASE /\ a.sess = a.key /\ Msg(n, "accept", a.sess, a.peer) \in sent
           /\ b.sess = b.peer /\ Msg(Peer(p), "accept", b.sess, b.key) \in sent
    BY <1>3, <1>b, <1>c, <1>d, <1>e
<1>4. CASE /\ a.sess = a.peer /\ Msg(Peer(n), "accept", a.sess, a.key) \in sent
           /\ b.sess = b.key /\ Msg(p, "accept", b.sess, b.peer) \in sent
    BY <1>4, <1>b, <1>c, <1>d, <1>e
<1> QED BY <1>1, <1>2, <1>3, <1>4 DEF RestsOn

(* Answering a challenge and the passing of a deadline.                    *)
LEMMA WaitKeeps ==
    ASSUME NegotiationInv, NEW n \in Node, AnswerChallenge(n) \/ Expire(n)
    PROVE  NegotiationInv'
<1>0. TypeOK
    BY DEF NegotiationInv
<1>1. TypeOK'
  <2>1. CASE AnswerChallenge(n)
    BY <1>0, <2>1 DEF AnswerChallenge, TypeOK, recordVars, hostVars
  <2>2. CASE Expire(n)
    BY <1>0, <2>2 DEF Expire, TypeOK, recordVars, hostVars
  <2> QED BY <2>1, <2>2
<1> QED BY <1>1, QuietKeeps DEF AnswerChallenge, Expire

(* The interface gets what the attempt agreed on.                          *)
LEMMA ConfigureKeeps ==
    ASSUME NegotiationInv, NEW n \in Node, Configure(n)
    PROVE  NegotiationInv'
<1>a. TypeOK /\ Knows(n) /\ Hosts(n)
    BY DEF NegotiationInv
<1>b. /\ phase[n] = "checking" /\ phase' = [phase EXCEPT ![n] = "verifying"]
      /\ iface' = [iface EXCEPT ![n] = [key |-> Own(n), peer |-> peerKey[n]]]
      /\ shook' = [shook EXCEPT ![n] = FALSE] /\ mirrors' = mirrors \cup {AgreedOn(n)}
      /\ UNCHANGED <<attempt, next, role, attemptVars, sent, recordVars, crashes>>
    BY DEF Configure, Goto
<1>c. /\ sess[n] \in Id /\ peerKey[n] \in Id /\ Own(n) \in Id /\ RestsOn(n, AgreedOn(n))
    BY <1>a, <1>b DEF Knows, Agreed
<1>d. [key |-> Own(n), peer |-> peerKey[n]] \in Keys /\ AgreedOn(n) \in Agreement
    BY <1>c DEF Keys, Agreement, AgreedOn
<1>e. Own(n)' = Own(n) /\ AgreedOn(n)' = AgreedOn(n) /\ phase'[n] = "verifying"
    BY <1>a, <1>b DEF Own, AgreedOn, attemptVars, TypeOK
<1>1. TypeOK'
    BY <1>a, <1>b, <1>d DEF TypeOK, Phase, attemptVars, recordVars
<1>2. Onward /\ Says(n) /\ Apart(n) /\ Records(n)
    BY <1>a, <1>b, NegotiationAssumption
       DEF Onward, Says, Apart, Records, TypeOK, attemptVars
<1>3. OffersRecorded' /\ AnsweredOnce'
  <2>1. \A q \in Node : phase'[q] # "down" => phase[q] # "down"
    BY <1>a, <1>b DEF TypeOK
  <2> QED BY <1>b, <2>1, RecordKept
<1>4. Knows(n)'
    BY <1>a, <1>b, <1>c, <1>e DEF Knows, RestsOn, attemptVars, Agreed
<1>5. Hosts(n)'
  <2>1. iface'[n] = [key |-> Own(n), peer |-> peerKey[n]] /\ shook'[n] = FALSE
    BY <1>a, <1>b DEF TypeOK
  <2>2. AgreedOn(n) \in mirrors' /\ AgreedOn(n).key = Own(n) /\ AgreedOn(n).peer = peerKey[n]
    BY <1>b DEF AgreedOn
  <2>3. peerKey'[n] = peerKey[n]
    BY <1>b DEF attemptVars
  <2> QED BY <1>e, <2>1, <2>2, <2>3 DEF Hosts, Waiting
<1> QED BY <1>1, <1>2, <1>3, <1>4, <1>5, <1>e, StepKeeps

(* The kernel sees a handshake: there is an interface at the other end.    *)
LEMMA ShakeKeeps ==
    ASSUME NegotiationInv, NEW n \in Node, Shake(n)
    PROVE  NegotiationInv'
<1>a. TypeOK /\ Knows(n) /\ Hosts(n) /\ Hosts(Peer(n)) /\ Peer(n) \in Node
    BY PeerType DEF NegotiationInv
<1>b. /\ Mirrored(n, Peer(n)) /\ shook' = [shook EXCEPT ![n] = TRUE]
      /\ UNCHANGED <<phase, attempt, next, role, attemptVars, sent, recordVars,
                     iface, mirrors, crashes>>
    BY DEF Shake
<1>c. UNCHANGED <<sess, peerKey, held>> /\ Own(n)' = Own(n) /\ AgreedOn(n)' = AgreedOn(n)
    BY <1>b DEF attemptVars, Own, AgreedOn
<1>1. TypeOK'
    BY <1>a, <1>b DEF TypeOK, attemptVars, recordVars
<1>2. Onward /\ Says(n) /\ Apart(n) /\ Records(n)
    BY <1>a, <1>b, <1>c, NegotiationAssumption DEF Onward, Says, Apart, Records, TypeOK
<1>3. OffersRecorded' /\ AnsweredOnce'
    BY <1>b, RecordKept
<1>4. Knows(n)'
    BY <1>a, <1>b, <1>c DEF Knows, RestsOn, Unsaid
<1>5. Hosts(n)'
  <2>1. \E t \in mirrors : t.key = iface[n].peer /\ t.peer = iface[n].key
    BY <1>a, <1>b DEF Hosts, Mirrored
  <2> QED BY <1>a, <1>b, <1>c, <2>1 DEF Hosts, Mirrored
<1>6. phase'[n] = "established" => [sess |-> sess'[n], key |-> peerKey'[n], peer |-> Own(n)'] \in mirrors'
    BY <1>b, <1>c DEF NegotiationInv, EstablishedIsMutual
<1> QED BY <1>1, <1>2, <1>3, <1>4, <1>5, <1>6, StepKeeps

(* Established: the other end was configured in this very session.         *)
LEMMA EstablishKeeps ==
    ASSUME NegotiationInv, NEW n \in Node, ConfirmEstablished(n)
    PROVE  NegotiationInv'
<1>a. TypeOK /\ Knows(n) /\ Hosts(n) /\ MirrorsRest
    BY DEF NegotiationInv
<1>b. /\ phase[n] = "verifying" /\ shook[n]
      /\ UNCHANGED <<attempt, role, sent, recordVars, hostVars, crashes>>
    BY DEF ConfirmEstablished
<1>c. Says(n) /\ Own(n)' = Own(n)
    BY <1>b DEF Says, Own
<1>1. CASE Goto(n, "established") /\ UNCHANGED <<next, attemptVars>>
  <2>1. PICK t \in mirrors : t.key = peerKey[n] /\ t.peer = Own(n)
    BY <1>a, <1>b DEF Hosts
  <2>2. t \in Agreement /\ t.key[1] \in Node /\ RestsOn(t.key[1], t)
    BY <1>a, IdType DEF TypeOK, Agreement, MirrorsRest
  <2>3. /\ AgreedOn(n) \in Agreement /\ AgreedOn(n).key[1] = n /\ RestsOn(n, AgreedOn(n))
        /\ AgreedOn(n).key = Own(n) /\ AgreedOn(n).peer = peerKey[n] /\ AgreedOn(n).sess = sess[n]
    BY <1>a, <1>b, OwnType DEF Knows, Agreed, AgreedOn, Agreement
  <2>4. t.sess = sess[n]
    BY <2>1, <2>2, <2>3, AgreementsMatch
  <2>5. t = [sess |-> sess[n], key |-> peerKey[n], peer |-> Own(n)]
    BY <2>1, <2>2, <2>4 DEF Agreement
  <2>6. /\ phase'[n] = "established" /\ UNCHANGED <<sess, peerKey, held, got, expired, proven>>
        /\ AgreedOn(n)' = AgreedOn(n) /\ mirrors' = mirrors
    BY <1>1, <1>a, <1>b, <1>c DEF Goto, TypeOK, attemptVars, hostVars, AgreedOn
  <2>7. Knows(n)'
    BY <1>a, <1>b, <1>c, <2>6 DEF Knows, RestsOn, Agreed
  <2>8. Hosts(n)'
    BY <1>a, <1>b, <1>c, <2>6 DEF Hosts, Waiting, hostVars
  <2>9. /\ peerKey' \in [Node -> Id \cup {None}] /\ got' \in [Node -> SUBSET Message]
        /\ held' \in [Node -> SUBSET Message]
    BY <1>a, <2>6 DEF TypeOK
  <2> QED BY <1>1, <1>b, <1>c, <2>1, <2>5, <2>6, <2>7, <2>8, <2>9, GoesOn DEF Phase
<1>2. CASE End(n, "auto")
    BY <1>2, <1>b, <1>c, EndKeeps DEF hostVars
<1> QED BY <1>1, <1>2 DEF ConfirmEstablished

(* The attempt or the session ends.                                        *)
LEMMA LeaveKeeps ==
    ASSUME NegotiationInv, NEW n \in Node, VerifyTimeout(n) \/ Release(n) \/ Timeout(n)
    PROVE  NegotiationInv'
<1>1. CASE VerifyTimeout(n) \/ Release(n)
  <2>1. /\ End(n, "auto") /\ TearDown(n) /\ phase[n] # "down" /\ sent' = sent
        /\ UNCHANGED <<attempt, role, recordVars, crashes>>
    BY <1>1 DEF VerifyTimeout, Release
  <2>2. mirrors' = mirrors /\ (UNCHANGED <<iface, shook>> \/ RemoveInterface(n))
    BY <2>1 DEF TearDown, RemoveInterface, hostVars
  <2> QED BY <2>1, <2>2, EndKeeps DEF Says
<1>2. CASE Timeout(n)
    BY <1>2, EndKeeps DEF Timeout, Says, hostVars, Waiting
<1> QED BY <1>1, <1>2

(* The process dies and comes back: memory goes, the record and the        *)
(* interface stay, and the record is read again or is lost.                *)
LEMMA CrashKeeps ==
    ASSUME NegotiationInv, NEW n \in Node, Crash(n) \/ Restart(n)
    PROVE  NegotiationInv'
<1>a. TypeOK /\ Knows(n)
    BY DEF NegotiationInv
<1>b. /\ Onward /\ Says(n) /\ UNCHANGED <<attempt, sent, stored, mirrors>>
      /\ lost \subseteq lost'
    BY <1>a, NegotiationAssumption
       DEF Crash, Restart, Onward, Says, TypeOK, hostVars, RemoveInterface, TearDown
<1>c. AnsweredOnce'
    BY <1>b DEF NegotiationInv, AnsweredOnce
<1>1. CASE Crash(n)
  <2>1. /\ phase' = [phase EXCEPT ![n] = "down"] /\ next' = [next EXCEPT ![n] = "auto"]
        /\ answered' = [answered EXCEPT ![n] = {}] /\ UNCHANGED <<role, lost, iface, shook>>
        /\ crashes' = crashes + 1 /\ crashes < MaxCrashes /\ ClearAttempt(n)
    BY <1>1 DEF Crash, Goto, hostVars
  <2>2. /\ sess' \in [Node -> Id \cup {None}] /\ peerKey' \in [Node -> Id \cup {None}]
        /\ expired' \in [Node -> BOOLEAN] /\ proven' \in [Node -> BOOLEAN]
        /\ got' \in [Node -> SUBSET Message] /\ held' \in [Node -> SUBSET Message]
        /\ held'[n] = {}
        /\ \A q \in Node \ {n} :
             sess'[q] = sess[q] /\ peerKey'[q] = peerKey[q] /\ held'[q] = held[q]
    BY <1>a, <2>1, ClearType
  <2>3. crashes' \in 0..MaxCrashes
    BY <1>a, <2>1, NegotiationAssumption DEF TypeOK
  <2>4. TypeOK'
    BY <1>a, <1>b, <2>1, <2>2, <2>3 DEF TypeOK, Phase
  <2>5. Apart(n) /\ phase'[n] = "down"
    BY <1>a, <1>b, <2>1, <2>2 DEF Apart, TypeOK
  <2>6. OffersRecorded'
    BY <1>a, <1>b, <2>1 DEF NegotiationInv, OffersRecorded, TypeOK
  <2> QED BY <1>b, <1>c, <2>1, <2>2, <2>4, <2>5, <2>6, OverKeeps
<1>2. CASE Restart(n)
  <2>1. /\ phase' = [phase EXCEPT ![n] = "idle"] /\ phase[n] = "down"
        /\ UNCHANGED <<next, role, attemptVars, crashes>>
    BY <1>2 DEF Restart, Goto
  <2>2. /\ answered' \in [Node -> SUBSET Id] /\ lost' \subseteq Id
        /\ \A q \in Node \ {n} : answered'[q] = answered[q]
        /\ stored[n] \subseteq answered'[n] \cup lost'
    <3>1. CASE answered' = [answered EXCEPT ![n] = stored[n]] /\ UNCHANGED lost
      BY <1>a, <3>1 DEF TypeOK
    <3>2. CASE UNCHANGED answered /\ lost' = lost \cup stored[n]
      BY <1>a, <3>2 DEF TypeOK
    <3> QED BY <1>2, <3>1, <3>2 DEF Restart
  <2>3. /\ iface' \in [Node -> Keys \cup {None}] /\ shook' \in [Node -> BOOLEAN]
        /\ \A q \in Node \ {n} : iface'[q] = iface[q] /\ shook'[q] = shook[q]
        /\ \/ iface'[n] = iface[n] /\ shook'[n] = shook[n]
           \/ iface'[n] = None /\ ~shook'[n]
    BY <1>2, <1>a DEF Restart, TearDown, RemoveInterface, hostVars, TypeOK
  <2>4. TypeOK'
    BY <1>a, <1>b, <2>1, <2>2, <2>3 DEF TypeOK, Phase, attemptVars
  <2>5. Apart(n) /\ phase'[n] = "idle" /\ held'[n] = {}
    BY <1>a, <1>b, <2>1, <2>3 DEF Apart, TypeOK, attemptVars, Knows
  <2>6. OffersRecorded'
    BY <1>a, <1>b, <2>1, <2>2 DEF NegotiationInv, OffersRecorded, TypeOK
  <2> QED BY <1>b, <1>c, <2>3, <2>4, <2>5, <2>6, OverKeeps
<1> QED BY <1>1, <1>2

(* The specification starts in the invariant.                              *)
LEMMA InitEstablishes == Init => NegotiationInv
<1> SUFFICES ASSUME Init PROVE NegotiationInv
    OBVIOUS
<1> USE DEF Init
<1>1. TypeOK
    BY NegotiationAssumption DEF TypeOK, Phase, ResolveRole
<1>2. MessagesSound /\ OnePerAttempt /\ MirrorsRest /\ OffersRecorded /\ AnsweredOnce
    BY DEF MessagesSound, OnePerAttempt, MirrorsRest, OffersRecorded, AnsweredOnce
<1>3. \A n \in Node : Knows(n) /\ Hosts(n)
    BY DEF Knows, Hosts, Waiting, Agreed
<1>4. EstablishedIsMutual
    BY DEF EstablishedIsMutual
<1> QED BY <1>1, <1>2, <1>3, <1>4 DEF NegotiationInv

(* Every step keeps the invariant.                                         *)
LEMMA NextKeeps ==
    ASSUME NegotiationInv, [Next]_vars
    PROVE  NegotiationInv'
<1>1. CASE \E n \in Node : StartAttempt(n) \/ PortHeld(n)
    BY <1>1, StartKeeps, PortHeldKeeps
<1>2. CASE \E n \in Node : Reads(n)
    BY <1>2, ReadKeeps, AnswerKeeps, AcceptKeeps, AcceptedKeeps, CandidatesKeep DEF Reads
<1>3. CASE \E n \in Node : PublishCandidates(n) \/ AnswerChallenge(n) \/ Expire(n)
    BY <1>3, CandidatesKeep, WaitKeeps
<1>4. CASE \E n \in Node : Configure(n) \/ Shake(n) \/ ConfirmEstablished(n)
    BY <1>4, ConfigureKeeps, ShakeKeeps, EstablishKeeps
<1>5. CASE \E n \in Node :
            VerifyTimeout(n) \/ Release(n) \/ Timeout(n) \/ Crash(n) \/ Restart(n)
    BY <1>5, LeaveKeeps, CrashKeeps
<1>6. CASE UNCHANGED vars
  <2>1. TypeOK'
    BY <1>6 DEF vars, attemptVars, recordVars, hostVars, NegotiationInv, TypeOK
  <2> QED BY <1>6, <2>1, QuietKeeps DEF vars, attemptVars
<1> QED BY <1>1, <1>2, <1>3, <1>4, <1>5, <1>6 DEF Next

(* The invariant holds in every state of every behaviour.                  *)
LEMMA Invariant == Spec => []NegotiationInv
<1> QED BY InitEstablishes, NextKeeps, PTL DEF Spec

(* The state has its type: drivers, control planes, records and hosts hold *)
(* only what the code puts there.                                          *)
THEOREM TypeCorrect == Spec => []TypeOK
<1>1. NegotiationInv => TypeOK
    BY DEF NegotiationInv
<1> QED BY <1>1, Invariant, PTL

(* Whoever agrees rests on an acceptance, and two who agree on a session   *)
(* on the same one.                                                        *)
LEMMA KeysMirror == NegotiationInv => MirrorKeys
<1> SUFFICES ASSUME NegotiationInv, NEW n \in Node, phase[n] \in Agreed,
                    phase[Peer(n)] \in Agreed, sess[n] = sess[Peer(n)]
             PROVE  peerKey[n] = Own(Peer(n)) /\ peerKey[Peer(n)] = Own(n)
    BY DEF MirrorKeys
<1> DEFINE p == Peer(n)
<1>1. p \in Node /\ p # n
    BY PeerType
<1> HIDE DEF p
<1>2. ASSUME NEW q \in {n, p}
      PROVE  /\ AgreedOn(q) \in Agreement /\ AgreedOn(q).key[1] = q /\ RestsOn(q, AgreedOn(q))
             /\ AgreedOn(q).key = Own(q) /\ AgreedOn(q).peer = peerKey[q] /\ AgreedOn(q).sess = sess[q]
  <2>1. q \in Node /\ phase[q] \in Agreed /\ Knows(q) /\ TypeOK
    BY <1>1 DEF NegotiationInv, p
  <2>2. Own(q) \in Id /\ sess[q] \in Id /\ peerKey[q] \in Id /\ RestsOn(q, AgreedOn(q))
    BY <2>1 DEF Knows, Agreed
  <2> QED BY <2>1, <2>2, OwnType DEF AgreedOn, Agreement
<1>3. sess[n] = sess[p]
    BY DEF p
<1>4. AgreedOn(n).key = AgreedOn(p).peer /\ AgreedOn(p).key = AgreedOn(n).peer
    BY <1>1, <1>2, <1>3, AgreementsMatch
<1> QED BY <1>2, <1>4 DEF p

(* Two nodes that believe they agreed on one session hold each other's     *)
(* keys, whatever was replayed, kept, lost or forgotten in a crash.        *)
THEOREM KeysAgree == Spec => []MirrorKeys
<1> QED BY KeysMirror, Invariant, PTL

(* A node takes its tunnel for established only when the peer configured   *)
(* the other end of it in the same session (ConfirmEstablished).           *)
THEOREM NobodyAlone == Spec => []EstablishedIsMutual
<1>1. NegotiationInv => EstablishedIsMutual
    BY DEF NegotiationInv
<1> QED BY <1>1, Invariant, PTL

(* A session is answered once, across any number of crashes, unless its    *)
(* record could not be written or, at a start, read (AnsweredSessions).    *)
THEOREM AnsweredOnlyOnce == Spec => []AnsweredOnce
<1>1. NegotiationInv => AnsweredOnce
    BY DEF NegotiationInv
<1> QED BY <1>1, Invariant, PTL

(* The state of the abstract specification.                                *)
Ends == [n \in Node |-> IF phase[n] \in Agreed THEN AgreedOn(n) ELSE None]
Up   == {n \in Node : phase[n] = "established"}

(* A step that changes neither an agreement, nor a host, nor the history.  *)
LEMMA Stutters ==
    ASSUME Ends' = Ends, Up' = Up, UNCHANGED <<iface, mirrors>>
    PROVE  UNCHANGED Promise!vars
BY DEF Promise!vars, Ends, Up

(* A step in which n's session is over, its interface gone or left, is the *)
(* abstract Leave.                                                         *)
LEMMA LeaveRefines ==
    ASSUME TypeOK, NEW n \in Node, phase'[n] \notin Agreed,
           \A q \in Node \ {n} : phase'[q] = phase[q] /\ AgreedOn(q)' = AgreedOn(q),
           iface' \in {iface, [iface EXCEPT ![n] = None]}, mirrors' = mirrors
    PROVE  Promise!Leave(n)
<1>1. Ends' = [Ends EXCEPT ![n] = None]
    BY DEF Ends
<1>2. Up' = Up \ {n}
    BY DEF Up, Agreed
<1> QED BY <1>1, <1>2 DEF Promise!Leave, Ends, Up

(* The same of the state a step leads to.                                  *)
LEMMA KeysMirrorNext == NegotiationInv' => MirrorKeys'
BY KeysMirror, PTL

(* A driver that enters StateConnecting is the abstract Agree: no          *)
(* interface ever had its key, and an end that agreed on the same session  *)
(* agreed on the mirror image.                                             *)
LEMMA AgreeRefines ==
    ASSUME NegotiationInv, NegotiationInv', NEW n \in Node,
           phase[n] \in Waiting \ Agreed, phase' = [phase EXCEPT ![n] = "gather"],
           UNCHANGED <<attempt, sess, iface, mirrors>>,
           \A q \in Node \ {n} : peerKey'[q] = peerKey[q]
    PROVE  Promise!Agree(n)
<1>a. TypeOK /\ Hosts(n) /\ Knows(n)' /\ MirrorKeys'
    BY KeysMirrorNext DEF NegotiationInv
<1>b. /\ \A q \in Node : phase'[q] = IF q = n THEN "gather" ELSE phase[q]
      /\ \A q \in Node : Own(q)' = Own(q)
      /\ \A q \in Node \ {n} : AgreedOn(q)' = AgreedOn(q)
    BY <1>a DEF TypeOK, Own, AgreedOn
<1>c. Ends'[n] = AgreedOn(n)' /\ Ends[n] = None
    BY <1>b DEF Ends, Agreed
<1>1. AgreedOn(n)' \in Promise!Agreement
  <2>1. sess'[n] \in Id /\ peerKey'[n] \in Id /\ Own(n)' \in Id
    BY <1>a, <1>b DEF Knows, Agreed
  <2> QED BY <2>1 DEF AgreedOn, Promise!Agreement
<1>2. \A t \in mirrors : t.key # AgreedOn(n)'.key
    BY <1>a, <1>b DEF Hosts, AgreedOn
<1>3. ASSUME NEW p \in Node \ {n}, Ends[p] # None, Ends[p].sess = AgreedOn(n)'.sess
      PROVE  Ends[p] = Promise!Mirror(AgreedOn(n)')
  <2>1. p = Peer(n) /\ phase[p] \in Agreed /\ Ends[p] = AgreedOn(p)
    BY <1>3, PeerType DEF Ends
  <2>2. sess[p] = sess[n] /\ phase'[p] \in Agreed /\ phase'[n] \in Agreed
    BY <1>3, <1>b, <2>1 DEF AgreedOn, Agreed
  <2>3. peerKey'[n] = Own(p)' /\ peerKey'[p] = Own(n)'
    BY <1>a, <2>1, <2>2 DEF MirrorKeys
  <2>4. peerKey[p] = Own(n) /\ peerKey'[n] = Own(p)
    BY <1>b, <2>3
  <2> QED BY <1>b, <2>1, <2>2, <2>4 DEF AgreedOn, Promise!Mirror
<1>4. Ends' = [Ends EXCEPT ![n] = AgreedOn(n)'] /\ Up' = Up
  <2>1. Up' = Up
    BY <1>b DEF Up, Waiting
  <2>2. Ends' = [Ends EXCEPT ![n] = AgreedOn(n)']
    BY <1>b DEF Ends, Agreed
  <2> QED BY <2>1, <2>2
<1> QED BY <1>c, <1>1, <1>2, <1>3, <1>4 DEF Promise!Agree, Ends, Up

(* A step after which n has agreed on what it had, and is established if   *)
(* it was.                                                                 *)
LEMMA SameEnds ==
    ASSUME NEW n \in Node,
           \A q \in Node \ {n} : phase'[q] = phase[q] /\ AgreedOn(q)' = AgreedOn(q),
           phase[n] \in Agreed <=> phase'[n] \in Agreed,
           phase[n] = "established" <=> phase'[n] = "established",
           phase[n] \in Agreed => AgreedOn(n)' = AgreedOn(n)
    PROVE  Ends' = Ends /\ Up' = Up
BY DEF Ends, Up

(* An attempt that ends, with its interface removed or not.                *)
LEMMA EndRefines ==
    ASSUME TypeOK, NEW n \in Node, NEW asked, End(n, asked),
           attempt' = attempt \/ attempt' = [attempt EXCEPT ![n] = @ + 1],
           UNCHANGED hostVars \/ RemoveInterface(n)
    PROVE  Promise!Leave(n)
<1>1. phase'[n] = "idle" /\ \A q \in Node \ {n} : phase'[q] = phase[q]
    BY DEF End, Goto, TypeOK
<1>2. \A q \in Node \ {n} : AgreedOn(q)' = AgreedOn(q)
    BY DEF End, ClearAttempt, TypeOK, AgreedOn, Own
<1>3. iface' \in {iface, [iface EXCEPT ![n] = None]} /\ mirrors' = mirrors
    BY DEF hostVars, RemoveInterface
<1>4. phase'[n] \notin Agreed
    BY <1>1 DEF Agreed
<1> QED BY <1>1, <1>2, <1>3, <1>4, LeaveRefines

(* What a driver does before it has agreed.                                *)
LEMMA OpeningRefines ==
    ASSUME NegotiationInv, NegotiationInv', NEW n \in Node,
           \/ StartAttempt(n) \/ PortHeld(n)
           \/ \E m \in sent : \/ Refuse(n, m) \/ Keep(n, m) \/ SkipStale(n, m)
                              \/ AnswerRequest(n, m) \/ AcceptOffer(n, m) \/ ReceiveAccept(n, m)
    PROVE  [Promise!Next]_(Promise!vars)
<1>a. TypeOK
    BY DEF NegotiationInv
<1>1. CASE StartAttempt(n) \/ PortHeld(n)
  <2>1. CASE \E asked : End(n, asked)
    BY <1>1, <1>a, <2>1, EndRefines DEF StartAttempt, PortHeld, Promise!Next
  <2>2. CASE /\ phase[n] = "idle" /\ phase'[n] \in {"idle", "awaitRequest", "awaitOffer"}
             /\ \A q \in Node \ {n} : phase'[q] = phase[q] /\ AgreedOn(q)' = AgreedOn(q)
             /\ UNCHANGED <<iface, mirrors>>
    <3>1. Ends' = Ends /\ Up' = Up
      BY <2>2, SameEnds DEF Agreed
    <3> QED BY <2>2, <3>1, Stutters
  <2>3. CASE PortHeld(n)
    BY <1>a, <2>2, <2>3 DEF PortHeld, TypeOK, AgreedOn, Own, attemptVars, hostVars
  <2>4. CASE StartAttempt(n) /\ ~\E asked : End(n, asked)
    <3>1. /\ phase[n] = "idle" /\ (Goto(n, "awaitRequest") \/ Goto(n, "awaitOffer"))
          /\ attempt' = [attempt EXCEPT ![n] = @ + 1] /\ UNCHANGED <<peerKey, hostVars>>
          /\ UNCHANGED sess \/ sess' = [sess EXCEPT ![n] = <<n, attempt[n] + 1>>]
      BY <2>4 DEF StartAttempt, PublishRefused
    <3>2. /\ phase'[n] \in {"awaitRequest", "awaitOffer"}
          /\ \A q \in Node \ {n} : phase'[q] = phase[q] /\ AgreedOn(q)' = AgreedOn(q)
      BY <1>a, <3>1 DEF Goto, TypeOK, AgreedOn, Own
    <3> QED BY <2>2, <3>1, <3>2 DEF hostVars
  <2> QED BY <1>1, <2>1, <2>3, <2>4
<1>2. CASE \E m \in sent : Refuse(n, m) \/ Keep(n, m) \/ SkipStale(n, m)
  <2>1. UNCHANGED <<phase, attempt, sess, peerKey, hostVars>>
    BY <1>2 DEF Refuse, Keep, SkipStale
  <2>2. Ends' = Ends /\ Up' = Up
    BY <2>1 DEF Ends, Up, AgreedOn, Own
  <2> QED BY <2>1, <2>2, Stutters DEF hostVars
<1>3. CASE \E m \in sent : AnswerRequest(n, m)
  <2>1. phase[n] = "awaitRequest" /\ UNCHANGED <<attempt, hostVars>>
    BY <1>3 DEF AnswerRequest
  <2>2. CASE \E asked : End(n, asked)
    BY <1>a, <2>1, <2>2, EndRefines DEF Promise!Next
  <2>3. CASE ~\E asked : End(n, asked)
    <3>1. PICK m \in sent : /\ Goto(n, "awaitAccept")
                            /\ sess' = [sess EXCEPT ![n] = m.sess]
                            /\ peerKey' = [peerKey EXCEPT ![n] = m.key]
      BY <1>3, <2>3 DEF AnswerRequest, PublishRefused
    <3>2. /\ phase'[n] = "awaitAccept"
          /\ \A q \in Node \ {n} : phase'[q] = phase[q] /\ AgreedOn(q)' = AgreedOn(q)
      BY <1>a, <2>1, <3>1 DEF Goto, TypeOK, AgreedOn, Own
    <3>3. Ends' = Ends /\ Up' = Up
      BY <2>1, <3>2, SameEnds DEF Agreed
    <3> QED BY <2>1, <3>3, Stutters DEF hostVars
  <2> QED BY <2>2, <2>3
<1>4. CASE \E m \in sent : AcceptOffer(n, m) \/ ReceiveAccept(n, m)
  <2>1. phase[n] \in {"awaitOffer", "awaitAccept"} /\ UNCHANGED <<attempt, hostVars>>
    BY <1>4 DEF AcceptOffer, ReceiveAccept
  <2>2. CASE \E asked : End(n, asked)
    BY <1>a, <2>1, <2>2, EndRefines DEF Promise!Next
  <2>3. CASE ~\E asked : End(n, asked)
    <3>1. /\ phase' = [phase EXCEPT ![n] = "gather"] /\ UNCHANGED sess
          /\ UNCHANGED peerKey \/ \E k : peerKey' = [peerKey EXCEPT ![n] = k]
      BY <1>4, <2>3 DEF AcceptOffer, ReceiveAccept, PublishRefused, Goto
    <3>2. \A q \in Node \ {n} : peerKey'[q] = peerKey[q]
      BY <1>a, <3>1 DEF TypeOK
    <3>3. phase[n] \in Waiting \ Agreed
      BY <2>1 DEF Waiting, Agreed
    <3>4. Promise!Agree(n)
      BY <2>1, <3>1, <3>2, <3>3, AgreeRefines DEF hostVars
    <3> QED BY <3>4 DEF Promise!Next
  <2> QED BY <2>2, <2>3
<1> QED BY <1>1, <1>2, <1>3, <1>4

(* What a driver does once it has agreed.                                  *)
LEMMA AgreedRefines ==
    ASSUME NegotiationInv, NegotiationInv', NEW n \in Node,
           \/ \E m \in sent : ConsumeCandidates(n, m)
           \/ PublishCandidates(n) \/ AnswerChallenge(n) \/ Expire(n)
           \/ Configure(n) \/ Shake(n) \/ ConfirmEstablished(n)
    PROVE  [Promise!Next]_(Promise!vars)
<1>a. TypeOK /\ Knows(n) /\ Hosts(n)
    BY DEF NegotiationInv
<1>1. CASE \E m \in sent : ConsumeCandidates(n, m)
  <2>1. /\ phase[n] = "awaitCandidates" /\ phase' = [phase EXCEPT ![n] = "checking"]
        /\ UNCHANGED <<attempt, sess, peerKey, hostVars>>
    BY <1>1 DEF ConsumeCandidates, Goto
  <2>2. /\ phase'[n] = "checking"
        /\ \A q \in Node \ {n} : phase'[q] = phase[q]
        /\ \A q \in Node : AgreedOn(q)' = AgreedOn(q)
    BY <1>a, <2>1 DEF TypeOK, AgreedOn, Own
  <2>3. Ends' = Ends /\ Up' = Up
    BY <2>1, <2>2, SameEnds DEF Agreed
  <2> QED BY <2>1, <2>3, Stutters DEF hostVars
<1>2. CASE PublishCandidates(n)
  <2>1. phase[n] = "gather" /\ UNCHANGED <<attempt, hostVars>>
    BY <1>2 DEF PublishCandidates
  <2>2. CASE End(n, "auto")
    BY <1>a, <2>1, <2>2, EndRefines DEF Promise!Next
  <2>3. CASE phase' = [phase EXCEPT ![n] = "awaitCandidates"] /\ UNCHANGED attemptVars
    <3>1. /\ phase'[n] = "awaitCandidates"
          /\ \A q \in Node \ {n} : phase'[q] = phase[q]
          /\ \A q \in Node : AgreedOn(q)' = AgreedOn(q)
      BY <1>a, <2>1, <2>3 DEF TypeOK, AgreedOn, Own, attemptVars
    <3>2. Ends' = Ends /\ Up' = Up
      BY <2>1, <3>1, SameEnds DEF Agreed
    <3> QED BY <2>1, <3>2, Stutters DEF hostVars
  <2> QED BY <1>2, <2>2, <2>3 DEF PublishCandidates, PublishRefused, Goto
<1>3. CASE AnswerChallenge(n) \/ Expire(n) \/ Shake(n)
  <2>1. UNCHANGED <<phase, attempt, sess, peerKey, iface, mirrors>>
    BY <1>3 DEF AnswerChallenge, Expire, Shake, attemptVars, hostVars
  <2>2. Ends' = Ends /\ Up' = Up
    BY <2>1 DEF Ends, Up, AgreedOn, Own
  <2> QED BY <2>1, <2>2, Stutters
<1>4. CASE Configure(n)
  <2>1. /\ phase[n] = "checking" /\ phase' = [phase EXCEPT ![n] = "verifying"]
        /\ iface' = [iface EXCEPT ![n] = [key |-> Own(n), peer |-> peerKey[n]]]
        /\ mirrors' = mirrors \cup {AgreedOn(n)}
        /\ UNCHANGED <<attempt, sess, peerKey>>
    BY <1>4 DEF Configure, Goto, attemptVars
  <2>2. /\ phase'[n] = "verifying"
        /\ \A q \in Node \ {n} : phase'[q] = phase[q]
        /\ \A q \in Node : AgreedOn(q)' = AgreedOn(q)
    BY <1>a, <2>1 DEF TypeOK, AgreedOn, Own
  <2>3. Ends' = Ends /\ Up' = Up
    BY <2>1, <2>2, SameEnds DEF Agreed
  <2>4. Ends[n] = AgreedOn(n) /\ Ends[n] # None /\ n \notin Up
    <3>1. AgreedOn(n) \in Agreement
      BY <1>a, <2>1 DEF Knows, Agreed, AgreedOn, Agreement
    <3> QED BY <2>1, <3>1, NoneAssumption DEF Ends, Up, Agreed
  <2>5. Ends[n].key = Own(n) /\ Ends[n].peer = peerKey[n]
    BY <2>4 DEF AgreedOn
  <2>6. Promise!Configure(n)
    BY <2>1, <2>3, <2>4, <2>5 DEF Promise!Configure, Ends, Up
  <2> QED BY <2>6 DEF Promise!Next
<1>5. CASE ConfirmEstablished(n)
  <2>1. phase[n] = "verifying" /\ UNCHANGED <<attempt, hostVars>>
    BY <1>5 DEF ConfirmEstablished
  <2>2. CASE End(n, "auto")
    BY <1>a, <2>1, <2>2, EndRefines DEF Promise!Next
  <2>3. CASE phase' = [phase EXCEPT ![n] = "established"] /\ UNCHANGED attemptVars
    <3>1. /\ phase'[n] = "established"
          /\ \A q \in Node \ {n} : phase'[q] = phase[q]
          /\ \A q \in Node : AgreedOn(q)' = AgreedOn(q) /\ Own(q)' = Own(q)
          /\ UNCHANGED <<sess, peerKey, iface, mirrors>>
      BY <1>a, <2>1, <2>3 DEF TypeOK, AgreedOn, Own, attemptVars, hostVars
    <3>2. Ends' = Ends /\ Up' = Up \cup {n}
      BY <2>1, <3>1 DEF Ends, Up, Agreed
    <3>3. Ends[n] = AgreedOn(n) /\ Ends[n] # None /\ n \notin Up /\ Ends[n] \in mirrors
      <4>1. AgreedOn(n) \in Agreement
        BY <1>a, <2>1 DEF Knows, Agreed, AgreedOn, Agreement
      <4> QED BY <1>a, <2>1, <4>1, NoneAssumption DEF Ends, Up, Agreed, Hosts
    <3>4. Promise!Mirror(Ends[n]) \in mirrors
      <4>1. [sess |-> sess[n], key |-> peerKey[n], peer |-> Own(n)] \in mirrors
        BY <3>1 DEF NegotiationInv, EstablishedIsMutual
      <4> QED BY <3>3, <4>1 DEF Promise!Mirror, AgreedOn
    <3>5. Promise!Establish(n)
      BY <3>1, <3>2, <3>3, <3>4 DEF Promise!Establish, Ends, Up
    <3> QED BY <3>5 DEF Promise!Next
  <2> QED BY <1>5, <2>2, <2>3 DEF ConfirmEstablished, Goto
<1> QED BY <1>1, <1>2, <1>3, <1>4, <1>5

(* The end of an attempt or of the process.                                *)
LEMMA LeavingRefines ==
    ASSUME NegotiationInv, NEW n \in Node,
           VerifyTimeout(n) \/ Release(n) \/ Timeout(n) \/ Crash(n) \/ Restart(n)
    PROVE  Promise!Next
<1>a. TypeOK
    BY DEF NegotiationInv
<1>1. CASE VerifyTimeout(n) \/ Release(n) \/ Timeout(n)
    BY <1>1, <1>a, EndRefines DEF VerifyTimeout, Release, TearDown, Timeout, Promise!Next
<1>2. CASE Crash(n)
  <2>1. phase'[n] = "down" /\ \A q \in Node \ {n} : phase'[q] = phase[q]
    BY <1>2, <1>a DEF Crash, Goto, TypeOK
  <2>2. \A q \in Node \ {n} : AgreedOn(q)' = AgreedOn(q)
    BY <1>2, <1>a DEF Crash, ClearAttempt, TypeOK, AgreedOn, Own
  <2>3. Promise!Leave(n)
    BY <1>2, <1>a, <2>1, <2>2, LeaveRefines DEF Crash, hostVars, Agreed
  <2> QED BY <2>3 DEF Promise!Next
<1>3. CASE Restart(n)
  <2>1. phase'[n] = "idle" /\ \A q \in Node \ {n} : phase'[q] = phase[q]
    BY <1>3, <1>a DEF Restart, Goto, TypeOK
  <2>2. \A q \in Node \ {n} : AgreedOn(q)' = AgreedOn(q)
    BY <1>3 DEF Restart, attemptVars, AgreedOn, Own
  <2>3. Promise!Leave(n)
    BY <1>3, <1>a, <2>1, <2>2, LeaveRefines DEF Restart, TearDown, RemoveInterface, hostVars, Agreed
  <2> QED BY <2>3 DEF Promise!Next
<1> QED BY <1>1, <1>2, <1>3

(* The negotiation implements the tunnel: what it starts in is an initial  *)
(* state of module Tunnel, and each of its steps is one of Tunnel's or     *)
(* changes nothing Tunnel knows of (Connect).                              *)
THEOREM Implements == Spec => KeepsPromise
<1>1. Init => Promise!Init
  <2> SUFFICES ASSUME Init PROVE Promise!Init
    OBVIOUS
  <2>1. Ends = [n \in Node |-> None] /\ Up = {}
    BY DEF Init, Ends, Up, Agreed
  <2> QED BY <2>1 DEF Init, Promise!Init, Ends, Up
<1>2. NegotiationInv /\ NegotiationInv' /\ [Next]_vars => [Promise!Next]_(Promise!vars)
  <2> SUFFICES ASSUME NegotiationInv, NegotiationInv', [Next]_vars
               PROVE  [Promise!Next]_(Promise!vars)
    OBVIOUS
  <2>1. CASE Next
    BY <2>1, OpeningRefines, AgreedRefines, LeavingRefines DEF Next, Reads
  <2>2. CASE UNCHANGED vars
    <3>1. UNCHANGED <<phase, attempt, sess, peerKey, iface, mirrors>>
      BY <2>2 DEF vars, attemptVars, hostVars
    <3>2. Ends' = Ends /\ Up' = Up
      BY <3>1 DEF Ends, Up, AgreedOn, Own
    <3> QED BY <3>1, <3>2, Stutters
  <2> QED BY <2>1, <2>2
<1> QED BY <1>1, <1>2, Invariant, PTL DEF Spec, KeepsPromise, Promise!Spec
=============================================================================
