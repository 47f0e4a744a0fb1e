------------------------------- MODULE Relays -------------------------------
(***************************************************************************)
(* One attempt's relay set (internal/nostr): the connections and their     *)
(* supervision, the subscription and its polling, the way of an event from *)
(* a relay through the client's deduplication to the control plane's       *)
(* reader, and the publication of this node's messages with its outbox.    *)
(*                                                                         *)
(* The relays are external: each answers a REQ from what it keeps, may or  *)
(* may not push what comes later, may refuse an event, stay silent about   *)
(* one, end a subscription, or go away.  Whether a relay keeps what it     *)
(* accepted from this node cannot be told and is not modelled.  What a     *)
(* message says, and whether its signature holds, is module Negotiation's  *)
(* subject; here an event has an id (itself) and a position in a session.  *)
(***************************************************************************)
EXTENDS Naturals, Sequences, FiniteSets

CONSTANTS
    Relay,           \* cfg.Node.Relays, without duplicates
    Event,           \* what is addressed to this node
    Position,        \* each event's LogicalKey: session, type, seq
    Message,         \* what this node publishes
    Pushing,         \* the relays that push what comes after a REQ
    MinAcceptances,
    Buffer,          \* the capacity of every channel (64)
    InboxLimit,      \* Inbox.maxEntries
    OutboxLimit,     \* Outbox.maxEntries
    MaxLosses,       \* bound: connections lost and subscriptions ended
    None

ASSUME RelaysAssumption ==
    /\ IsFiniteSet(Relay) /\ Pushing \subseteq Relay
    /\ MinAcceptances \in 1..Cardinality(Relay)
    /\ Buffer \in Nat \ {0} /\ InboxLimit \in Nat \ {0} /\ OutboxLimit \in Nat
    /\ MaxLosses \in Nat
    /\ None \notin Message

VARIABLES
    phase,      \* what the attempt is doing: reading, holding a session, over
    link,       \* WebSocketRelay.conn
    served,     \* external: the relay has this connection's subscription
    stored,     \* external: what the relay keeps for this node
    wire,       \* events the relay has sent and read() has not had
    stream,     \* the channel from the relay's read() to its forwarder
    seen,       \* Inbox: the events remembered, oldest first
    inbound,    \* controlPlane.inbound
    handed,     \* how often each event was handed to the reader, 2 for more
    pub,        \* the message being published
    part,       \* how the publication fares with each relay
    done,       \* how each message's publication ended
    outbox,     \* the messages queued for later
    losses

linkVars    == <<link, served, losses>>
receiveVars == <<wire, stream, seen, inbound, handed>>
publishVars == <<pub, part, done, outbox>>
vars == <<phase, linkVars, stored, receiveVars, publishVars>>

TypeOK ==
    /\ phase \in {"reading", "holding", "over", "stopped"}
    /\ link \in [Relay -> BOOLEAN] /\ served \in [Relay -> BOOLEAN]
    /\ stored \in [Relay -> SUBSET Event]
    /\ wire \in [Relay -> SUBSET Event]
    /\ stream \in [Relay -> Seq(Event)] /\ \A r \in Relay : Len(stream[r]) <= Buffer
    /\ seen \in Seq(Event) /\ Len(seen) <= InboxLimit
    /\ inbound \in Seq(Event) /\ Len(inbound) <= Buffer
    /\ handed \in [Event -> 0..2]
    /\ pub \in Message \cup {None}
    /\ part \in [Relay -> {"none", "waiting", "orphaned", "accepted", "failed"}]
    /\ done \in [Message -> {"no", "ok", "error"}]
    /\ outbox \subseteq Message /\ Cardinality(outbox) <= OutboxLimit
    /\ losses \in 0..MaxLosses

(* The set is connected to at least one relay, the control plane reads,    *)
(* and every relay that is connected has been sent the subscription.       *)
Init ==
    /\ phase = "reading" /\ losses = 0
    /\ link \in [Relay -> BOOLEAN] /\ \E r \in Relay : link[r]
    /\ served = link
    /\ stored = [r \in Relay |-> {}] /\ wire = [r \in Relay |-> {}]
    /\ stream = [r \in Relay |-> <<>>]
    /\ seen = <<>> /\ inbound = <<>> /\ handed = [e \in Event |-> 0]
    /\ pub = None /\ part = [r \in Relay |-> "none"]
    /\ done = [m \in Message |-> "no"] /\ outbox = {}
-----------------------------------------------------------------------------
(* The relays, external.                                                   *)

(* A peer publishes to the relays it reaches, while somebody reads.        *)
PeerPublishes(e) ==
    /\ phase = "reading" /\ \A r \in Relay : e \notin stored[r]
    /\ \E reached \in SUBSET Relay \ {{}} :
        /\ stored' = [r \in Relay |-> IF r \in reached THEN stored[r] \cup {e} ELSE stored[r]]
        /\ wire' = [r \in Relay |->
              IF r \in reached \cap Pushing /\ served[r] THEN wire[r] \cup {e} ELSE wire[r]]
    /\ UNCHANGED <<phase, linkVars, stream, seen, inbound, handed, publishVars>>

(* A connection ends: what was on it is lost, a verdict too.  read() takes *)
(* the connection away and leaves the waiting publishers.                  *)
Lose(r) ==
    /\ link[r] /\ losses < MaxLosses
    /\ losses' = losses + 1
    /\ link' = [link EXCEPT ![r] = FALSE] /\ served' = [served EXCEPT ![r] = FALSE]
    /\ wire' = [wire EXCEPT ![r] = {}]
    /\ part' = [part EXCEPT ![r] = IF @ = "waiting" THEN "orphaned" ELSE @]
    /\ UNCHANGED <<phase, stored, stream, seen, inbound, handed, pub, done, outbox>>

(* A CLOSED frame, which handleClosed counts.                              *)
EndSubscription(r) ==
    /\ served[r] /\ losses < MaxLosses
    /\ losses' = losses + 1
    /\ served' = [served EXCEPT ![r] = FALSE]
    /\ UNCHANGED <<phase, link, stored, receiveVars, publishVars>>
-----------------------------------------------------------------------------
(* RelaySet.                                                               *)

(* An answer to a REQ: all the relay keeps for this node.  Once nobody     *)
(* reads, the channels fill up and what comes is dropped: left out.        *)
Answer(r) == IF phase = "reading" THEN stored[r] ELSE {}

(* Poll: SubscribeToInbox reissues the subscription, under its one id, on  *)
(* every relay that is connected.                                          *)
Poll ==
    /\ phase # "stopped"
    /\ served' = link
    /\ wire' = [r \in Relay |-> IF link[r] THEN wire[r] \cup Answer(r) ELSE {}]
    /\ UNCHANGED <<phase, link, losses, stored, stream, seen, inbound, handed, publishVars>>

(* superviseOne: dial, and resubscribe.  It runs until the worker's        *)
(* context ends, also when its set was closed.                             *)
Redial(r) ==
    /\ phase # "stopped" /\ ~link[r]
    /\ link' = [link EXCEPT ![r] = TRUE] /\ served' = [served EXCEPT ![r] = TRUE]
    /\ wire' = [wire EXCEPT ![r] = Answer(r)]
    /\ UNCHANGED <<phase, losses, stored, stream, seen, inbound, handed, publishVars>>
-----------------------------------------------------------------------------
(* From a relay to the reader.                                             *)

\* Mutant: a delivery is deduplicated before it is queued.
DropRemembered(r, e) ==
    LET room == Len(stream[r]) < Buffer
    IN  /\ e \in wire[r]
        /\ wire' = [wire EXCEPT ![r] = @ \ {e}]
        /\ stream' = IF room THEN [stream EXCEPT ![r] = Append(@, e)] ELSE stream
        /\ seen' = IF room \/ \E i \in 1..Len(seen) : seen[i] = e THEN seen ELSE Append(seen, e)
        /\ UNCHANGED <<phase, linkVars, stored, inbound, handed, publishVars>>

\* Mutant: deliveries are queued for as long as they come.
ArriveQueued(r, e) ==
    /\ e \in wire[r]
    /\ wire' = [wire EXCEPT ![r] = @ \ {e}]
    /\ stream' = [stream EXCEPT ![r] = Append(@, e)]
    /\ UNCHANGED <<phase, linkVars, stored, seen, inbound, handed, publishVars>>

(* handleEvent: a delivery that finds its channel full is dropped.         *)
Arrive(r, e) ==
    /\ e \in wire[r]
    /\ wire' = [wire EXCEPT ![r] = @ \ {e}]
    /\ stream' = IF Len(stream[r]) < Buffer THEN [stream EXCEPT ![r] = Append(@, e)] ELSE stream
    /\ UNCHANGED <<phase, linkVars, stored, seen, inbound, handed, publishVars>>

Remembered == {seen[i] : i \in 1..Len(seen)}

\* Mutant: only the position is looked up.
VerdictByPosition(e) ==
    IF \E o \in Remembered : Position[o] = Position[e] THEN "conflict" ELSE "new"

(* Observe's verdict.                                                      *)
Verdict(e) ==
    CASE e \in Remembered -> "duplicate"
      [] e \notin Remembered /\ \E o \in Remembered : Position[o] = Position[e] -> "conflict"
      [] OTHER -> "new"

(* remember, which evicts the oldest when full.  Only a new event is       *)
(* remembered.                                                             *)
Remember(e) == IF Len(seen) >= InboxLimit THEN Append(Tail(seen), e) ELSE Append(seen, e)

(* The forwarder takes an event, observes it, and passes it on unless it   *)
(* is a duplicate; it waits for room, with the event in hand.              *)
Forward(r) ==
    /\ stream[r] # <<>>
    /\ LET e == Head(stream[r])
       IN  /\ Verdict(e) # "duplicate" => Len(inbound) < Buffer
           /\ seen' = IF Verdict(e) = "new" THEN Remember(e) ELSE seen
           /\ inbound' = IF Verdict(e) = "duplicate" THEN inbound ELSE Append(inbound, e)
    /\ stream' = [stream EXCEPT ![r] = Tail(@)]
    /\ UNCHANGED <<phase, linkVars, stored, wire, handed, publishVars>>

(* controlPlane.Next, which the driver calls between publications.         *)
(* Nothing looks at the verdict.                                           *)
Read ==
    /\ phase = "reading" /\ pub = None /\ inbound # <<>>
    /\ inbound' = Tail(inbound)
    /\ handed' = [handed EXCEPT ![Head(inbound)] = IF @ < 2 THEN @ + 1 ELSE @]
    /\ UNCHANGED <<phase, linkVars, stored, wire, stream, seen, publishVars>>
-----------------------------------------------------------------------------
(* Publication.                                                            *)

(* Publish fans the event out: every relay that is connected is sent it    *)
(* (WebSocketRelay.Publish, up to its wait).                               *)
Publish(m) ==
    /\ phase \in {"reading", "holding"} /\ pub = None /\ done[m] = "no"
    /\ pub' = m
    /\ part' = [r \in Relay |-> IF link[r] THEN "waiting" ELSE "failed"]
    /\ UNCHANGED <<phase, linkVars, stored, receiveVars, done, outbox>>

(* The relay's OK, one way or the other.  It is all a publisher learns: a  *)
(* relay that accepted may have discarded the event.                       *)
Judge(r) ==
    /\ part[r] = "waiting"
    /\ \E verdict \in {"accepted", "failed"} : part' = [part EXCEPT ![r] = verdict]
    /\ UNCHANGED <<phase, linkVars, stored, receiveVars, pub, done, outbox>>

AcceptedBy == {r \in Relay : part[r] = "accepted"}

Succeeded == Cardinality(AcceptedBy) >= MinAcceptances

(* wg.Wait: every relay's goroutine has returned.                          *)
AllAnswered == \A r \in Relay : part[r] \in {"accepted", "failed"}

(* Enqueue refuses when it is full.                                        *)
Enqueue(m) == IF Cardinality(outbox) < OutboxLimit THEN outbox \cup {m} ELSE outbox

(* PublishWithOutbox: a message too few relays took is queued, and is an   *)
(* error all the same.                                                     *)
PublishWithOutbox ==
    /\ pub # None /\ AllAnswered
    /\ done' = [done EXCEPT ![pub] = IF Succeeded THEN "ok" ELSE "error"]
    /\ outbox' = IF Succeeded THEN outbox ELSE Enqueue(pub)
    /\ pub' = None /\ part' = [r \in Relay |-> "none"]
    /\ UNCHANGED <<phase, linkVars, stored, receiveVars>>
-----------------------------------------------------------------------------
(* The attempt.                                                            *)

(* What is on its way to the reader goes nowhere from here on, and what    *)
(* was read no longer matters.                                             *)
NobodyReads ==
    /\ wire' = [r \in Relay |-> {}] /\ stream' = [r \in Relay |-> <<>>]
    /\ seen' = <<>> /\ inbound' = <<>> /\ handed' = [e \in Event |-> 0]

Disconnect ==
    /\ link' = [r \in Relay |-> FALSE] /\ served' = [r \in Relay |-> FALSE]
    /\ UNCHANGED losses

(* Connect has returned, and Hold does not read.                           *)
StartHold ==
    /\ phase = "reading" /\ pub = None
    /\ phase' = "holding" /\ NobodyReads
    /\ UNCHANGED <<linkVars, stored, publishVars>>

(* The attempt returns, and its cleanup closes the set.                    *)
Close ==
    /\ phase \in {"reading", "holding"} /\ pub = None
    /\ phase' = "over" /\ NobodyReads /\ Disconnect
    /\ UNCHANGED <<stored, publishVars>>

\* Mutant: only a relay that is still there is given up on.
CancelConnected ==
    /\ phase # "stopped"
    /\ phase' = "stopped" /\ NobodyReads /\ Disconnect
    /\ part' = [r \in Relay |-> IF part[r] = "waiting" THEN "failed" ELSE part[r]]
    /\ UNCHANGED <<stored, pub, done, outbox>>

(* The worker is cancelled: everything that waits on its context returns,  *)
(* a publication with what it has.                                         *)
Cancel ==
    /\ phase # "stopped"
    /\ phase' = "stopped" /\ NobodyReads /\ Disconnect
    /\ part' = [r \in Relay |-> IF part[r] \in {"none", "accepted"} THEN part[r] ELSE "failed"]
    /\ UNCHANGED <<stored, pub, done, outbox>>

Next ==
    \/ Poll \/ Read \/ PublishWithOutbox \/ StartHold \/ Close \/ Cancel
    \/ \E e \in Event : PeerPublishes(e)
    \/ \E m \in Message : Publish(m)
    \/ \E r \in Relay :
        \/ Lose(r) \/ EndSubscription(r) \/ Redial(r)
        \/ Forward(r) \/ Judge(r)
        \/ \E e \in Event : Arrive(r, e)

Spec == Init /\ [][Next]_vars

(* The goroutines run.  The ticker ticks, and as its interval is seconds   *)
(* long some tick finds room in a relay's channel, and so, at some relay,  *)
(* does an event the answers bring again and again.  Nothing is assumed of *)
(* whether a relay that was lost can be reached again, nor of when, or     *)
(* whether, a relay answers a publication.                                 *)
FairSpec ==
    /\ Spec /\ WF_vars(Read) /\ WF_vars(PublishWithOutbox)
    /\ \A r \in Relay : WF_vars(Forward(r)) /\ SF_vars(Poll /\ Len(stream[r]) < Buffer)
    /\ \A e \in Event : SF_vars(\E r \in Relay : Arrive(r, e) /\ Len(stream[r]) < Buffer)
-----------------------------------------------------------------------------
(* Redundant relays, repeated polls and reconnections hand an event to the *)
(* reader once, unless another event has its position (Observe).           *)
HandedOnce ==
    \A e \in Event : handed[e] = 2 => \E o \in Remembered \ {e} : Position[o] = Position[e]

(* An event reaches the driver that waits for it once some relay that      *)
(* keeps it stays connected: though relays do not push, end subscriptions, *)
(* go away and come back, and channels overflow with other events (Poll,   *)
(* Supervise, handleEvent).                                                *)
Delivered ==
    \A e \in Event :
        <>[](phase = "reading" /\ pub = None /\ \E r \in Relay : link[r] /\ e \in stored[r])
            => <>(handed[e] > 0)

(* No publication outlives its worker: one that waits for a relay that is  *)
(* silent, or was lost with the verdict on its way, is given up when the   *)
(* worker is cancelled.  Nothing else ends such a wait (Publish, wg.Wait). *)
StopEndsPublish == phase = "stopped" ~> pub = None

(* When an attempt is over nothing of its relay set is connected (cleanup, *)
(* RelaySet.Close).                                                        *)
ClosedStaysClosed == phase = "over" => \A r \in Relay : ~link[r]
-----------------------------------------------------------------------------
(* A publication under way has been taken up with every relay, and once    *)
(* the worker is cancelled it waits for none of them: what StopEndsPublish *)
(* rests on.                                                               *)
NobodyKeepsWaiting ==
    /\ pub # None => \A r \in Relay : part[r] # "none"
    /\ phase = "stopped" => \A r \in Relay : part[r] \notin {"waiting", "orphaned"}

RelaysInv == TypeOK /\ IsFiniteSet(outbox) /\ NobodyKeepsWaiting

(* The strengthening under which HandedOnce is inductive, where the inbox  *)
(* never has to forget: it remembers events once, and an event of which    *)
(* there is no rival is on its way to the reader, or was read, only once.  *)
Rivalled(e) == \E o \in Remembered \ {e} : Position[o] = Position[e]

OnceOnItsWay ==
    \A e \in Event : ~Rivalled(e) =>
        /\ \A i \in 1..Len(inbound) : inbound[i] = e =>
              /\ e \in Remembered /\ handed[e] = 0
              /\ \A j \in 1..Len(inbound) : inbound[j] = e => i = j
        /\ handed[e] > 0 => e \in Remembered /\ handed[e] = 1

HandedInv ==
    /\ IsFiniteSet(Remembered) /\ Cardinality(Remembered) = Len(seen)
    /\ OnceOnItsWay
=============================================================================
