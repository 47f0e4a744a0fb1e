---------------------------- MODULE RelaysProofs ----------------------------
(* An attempt's relay set, for every finite set of relays, every channel   *)
(* capacity and any number of lost connections: queues stay bounded, no    *)
(* publication waits once its worker is cancelled, and where the inbox is  *)
(* not too small for what comes an event is handed over once.              *)
EXTENDS Relays, FiniteSetTheorems, TLAPS

(* What is left of a sequence when its head is taken.                      *)
LEMMA TailFacts ==
    ASSUME NEW S, NEW s \in Seq(S), s # <<>>
    PROVE  /\ Head(s) \in S /\ Tail(s) \in Seq(S)
           /\ Len(s) \in Nat \ {0} /\ Len(Tail(s)) = Len(s) - 1
           /\ Head(s) = s[1]
           /\ \A i \in 1..Len(Tail(s)) : i + 1 \in 1..Len(s) /\ Tail(s)[i] = s[i + 1]
OBVIOUS

(* What a sequence is when something is put at its end.                    *)
LEMMA AppendFacts ==
    ASSUME NEW S, NEW s \in Seq(S), NEW e \in S
    PROVE  /\ Append(s, e) \in Seq(S)
           /\ Len(s) \in Nat /\ Len(Append(s, e)) = Len(s) + 1
           /\ Append(s, e)[Len(s) + 1] = e
           /\ \A i \in 1..Len(s) : Append(s, e)[i] = s[i]
OBVIOUS

(* The queue of messages stays finite and within its limit.                *)
LEMMA EnqueueType ==
    ASSUME TypeOK, IsFiniteSet(outbox), NEW m \in Message
    PROVE  /\ Enqueue(m) \subseteq Message /\ IsFiniteSet(Enqueue(m))
           /\ Cardinality(Enqueue(m)) <= OutboxLimit
<1>1. outbox \subseteq Message /\ Cardinality(outbox) <= OutboxLimit /\ OutboxLimit \in Nat
    BY RelaysAssumption DEF TypeOK
<1>2. Cardinality(outbox) \in Nat
    BY FS_CardinalityType
<1>3. CASE m \in outbox \/ ~(Cardinality(outbox) < OutboxLimit)
  <2>1. Enqueue(m) = outbox
    BY <1>3 DEF Enqueue
  <2> QED BY <1>1, <2>1
<1>4. CASE m \notin outbox /\ Cardinality(outbox) < OutboxLimit
  <2>1. Enqueue(m) = outbox \cup {m}
    BY <1>4 DEF Enqueue
  <2>2. IsFiniteSet(outbox \cup {m}) /\ Cardinality(outbox \cup {m}) = Cardinality(outbox) + 1
    BY <1>4, FS_AddElement
  <2> QED BY <1>1, <1>2, <1>4, <2>1, <2>2
<1> QED BY <1>3, <1>4

(* What the inbox remembers after a new event is of its type and size.     *)
LEMMA RememberType ==
    ASSUME TypeOK, NEW e \in Event
    PROVE  Remember(e) \in Seq(Event) /\ Len(Remember(e)) <= InboxLimit
<1>1. seen \in Seq(Event) /\ Len(seen) \in Nat /\ Len(seen) <= InboxLimit /\ InboxLimit \in Nat \ {0}
    BY RelaysAssumption DEF TypeOK
<1>2. CASE Len(seen) >= InboxLimit
  <2>1. seen # <<>>
    BY <1>1, <1>2
  <2>2. Tail(seen) \in Seq(Event) /\ Len(Tail(seen)) = Len(seen) - 1
    BY <1>1, <2>1, TailFacts
  <2>3. Append(Tail(seen), e) \in Seq(Event) /\ Len(Append(Tail(seen), e)) = Len(Tail(seen)) + 1
    BY <2>2, AppendFacts
  <2> QED BY <1>1, <1>2, <2>2, <2>3 DEF Remember
<1>3. CASE ~(Len(seen) >= InboxLimit)
  <2>1. Append(seen, e) \in Seq(Event) /\ Len(Append(seen, e)) = Len(seen) + 1
    BY <1>1, AppendFacts
  <2> QED BY <1>1, <1>3, <2>1 DEF Remember
<1> QED BY <1>2, <1>3

(* A set is up, with nothing published or received.                        *)
LEMMA InitEstablishes == Init => RelaysInv /\ HandedInv
<1> SUFFICES ASSUME Init PROVE RelaysInv /\ HandedInv
    OBVIOUS
<1> USE DEF Init
<1>1. IsFiniteSet({}) /\ Cardinality({}) = 0
    BY FS_EmptySet
<1>2. TypeOK
    BY <1>1, RelaysAssumption DEF TypeOK
<1>3. IsFiniteSet(outbox) /\ NobodyKeepsWaiting
    BY <1>1 DEF NobodyKeepsWaiting
<1>4. Remembered = {}
    BY DEF Remembered
<1>5. HandedInv
    BY <1>1, <1>4 DEF HandedInv, OnceOnItsWay
<1> QED BY <1>2, <1>3, <1>5 DEF RelaysInv

(* What does not touch a publication leaves what is known of it.           *)
LEMMA PublicationKept ==
    ASSUME RelaysInv, UNCHANGED publishVars, phase' = "stopped" => phase = "stopped"
    PROVE  IsFiniteSet(outbox') /\ NobodyKeepsWaiting'
BY DEF RelaysInv, NobodyKeepsWaiting, publishVars

(* The steps of the relays, and of what keeps the node connected to them.  *)
LEMMA LinksPreserve ==
    ASSUME RelaysInv,
           \/ Poll
           \/ \E e \in Event : PeerPublishes(e)
           \/ \E r \in Relay : Lose(r) \/ EndSubscription(r) \/ Redial(r)
    PROVE  RelaysInv'
<1> USE DEF linkVars, receiveVars, publishVars
<1>0. TypeOK /\ NobodyKeepsWaiting /\ MaxLosses \in Nat
    BY RelaysAssumption DEF RelaysInv
<1>a. \A r \in Relay : Answer(r) \subseteq Event
    BY <1>0 DEF Answer, TypeOK
<1>1. CASE Poll
  <2>1. TypeOK'
    BY <1>0, <1>1, <1>a DEF TypeOK, Poll
  <2>2. IsFiniteSet(outbox') /\ NobodyKeepsWaiting'
    BY <1>1, PublicationKept DEF Poll
  <2> QED BY <2>1, <2>2 DEF RelaysInv
<1>2. ASSUME NEW e \in Event, PeerPublishes(e) PROVE RelaysInv'
  <2>1. TypeOK'
    BY <1>0, <1>2 DEF TypeOK, PeerPublishes
  <2>2. IsFiniteSet(outbox') /\ NobodyKeepsWaiting'
    BY <1>2, PublicationKept DEF PeerPublishes
  <2> QED BY <2>1, <2>2 DEF RelaysInv
<1>3. ASSUME NEW r \in Relay, Lose(r) PROVE RelaysInv'
  <2>1. TypeOK'
    BY <1>0, <1>3, SMTT(30) DEF TypeOK, Lose
  <2>2. \A q \in Relay : part'[q] = IF q = r /\ part[q] = "waiting" THEN "orphaned" ELSE part[q]
    BY <1>0, <1>3 DEF TypeOK, Lose
  <2>3. NobodyKeepsWaiting'
    BY <1>0, <1>3, <2>2 DEF NobodyKeepsWaiting, Lose
  <2>4. outbox' = outbox
    BY <1>3 DEF Lose
  <2> QED BY <2>1, <2>3, <2>4 DEF RelaysInv
<1>4. ASSUME NEW r \in Relay, EndSubscription(r) PROVE RelaysInv'
  <2>1. TypeOK'
    BY <1>0, <1>4 DEF TypeOK, EndSubscription
  <2>2. IsFiniteSet(outbox') /\ NobodyKeepsWaiting'
    BY <1>4, PublicationKept DEF EndSubscription
  <2> QED BY <2>1, <2>2 DEF RelaysInv
<1>5. ASSUME NEW r \in Relay, Redial(r) PROVE RelaysInv'
  <2>1. TypeOK'
    BY <1>0, <1>5, <1>a DEF TypeOK, Redial
  <2>2. IsFiniteSet(outbox') /\ NobodyKeepsWaiting'
    BY <1>5, PublicationKept DEF Redial
  <2> QED BY <2>1, <2>2 DEF RelaysInv
<1> QED BY <1>1, <1>2, <1>3, <1>4, <1>5

(* The steps of an event on its way to the reader.                         *)
LEMMA ReceivingPreserves ==
    ASSUME RelaysInv,
           \/ Read
           \/ \E r \in Relay : Forward(r) \/ \E e \in Event : Arrive(r, e)
    PROVE  RelaysInv'
<1> USE DEF linkVars, publishVars
<1>0. TypeOK /\ Buffer \in Nat \ {0}
    BY RelaysAssumption DEF RelaysInv
<1>1. CASE Read
  <2>1. inbound \in Seq(Event) /\ inbound # <<>> /\ Len(inbound) <= Buffer
    BY <1>0, <1>1 DEF TypeOK, Read
  <2>2. /\ Head(inbound) \in Event /\ Tail(inbound) \in Seq(Event)
        /\ Len(inbound) \in Nat \ {0} /\ Len(Tail(inbound)) = Len(inbound) - 1
    BY <2>1, TailFacts
  <2>3. inbound' \in Seq(Event) /\ Len(inbound') <= Buffer
    BY <1>0, <1>1, <2>1, <2>2 DEF Read
  <2>4. handed' \in [Event -> 0..2]
    BY <1>0, <1>1, <2>2 DEF TypeOK, Read
  <2>5. TypeOK'
    BY <1>0, <1>1, <2>3, <2>4 DEF TypeOK, Read
  <2>6. IsFiniteSet(outbox') /\ NobodyKeepsWaiting'
    BY <1>1, PublicationKept DEF Read
  <2> QED BY <2>5, <2>6 DEF RelaysInv
<1>2. ASSUME NEW r \in Relay, Forward(r) PROVE RelaysInv'
  <2> DEFINE e == Head(stream[r])
  <2>1. stream[r] \in Seq(Event) /\ stream[r] # <<>> /\ Len(stream[r]) <= Buffer
    BY <1>0, <1>2 DEF TypeOK, Forward
  <2>2. /\ e \in Event /\ Tail(stream[r]) \in Seq(Event)
        /\ Len(stream[r]) \in Nat \ {0} /\ Len(Tail(stream[r])) = Len(stream[r]) - 1
    BY <2>1, TailFacts
  <2>3. Len(Tail(stream[r])) <= Buffer
    BY <1>0, <2>1, <2>2
  <2>4. stream' = [stream EXCEPT ![r] = Tail(stream[r])]
    BY <1>2 DEF Forward
  <2>5. stream' \in [Relay -> Seq(Event)] /\ \A q \in Relay : Len(stream'[q]) <= Buffer
    BY <1>0, <2>2, <2>3, <2>4 DEF TypeOK
  <2>6. /\ (Verdict(e) # "duplicate" => Len(inbound) < Buffer)
        /\ seen' = IF Verdict(e) = "new" THEN Remember(e) ELSE seen
        /\ inbound' = IF Verdict(e) = "duplicate" THEN inbound ELSE Append(inbound, e)
    BY <1>2 DEF Forward
  <2>7. inbound \in Seq(Event) /\ Len(inbound) <= Buffer /\ seen \in Seq(Event) /\ Len(seen) <= InboxLimit
    BY <1>0 DEF TypeOK
  <2> HIDE DEF e
  <2>8. seen' \in Seq(Event) /\ Len(seen') <= InboxLimit
    BY <1>0, <2>2, <2>6, <2>7, RememberType
  <2>9. Append(inbound, e) \in Seq(Event) /\ Len(inbound) \in Nat /\ Len(Append(inbound, e)) = Len(inbound) + 1
    BY <2>2, <2>7, AppendFacts
  <2>10. inbound' \in Seq(Event) /\ Len(inbound') <= Buffer
    BY <1>0, <2>6, <2>7, <2>9
  <2>11. TypeOK'
    BY <1>0, <1>2, <2>5, <2>8, <2>10 DEF TypeOK, Forward
  <2>12. IsFiniteSet(outbox') /\ NobodyKeepsWaiting'
    BY <1>2, PublicationKept DEF Forward
  <2> QED BY <2>11, <2>12 DEF RelaysInv
<1>3. ASSUME NEW r \in Relay, NEW e \in Event, Arrive(r, e) PROVE RelaysInv'
  <2>1. stream[r] \in Seq(Event)
    BY <1>0 DEF TypeOK
  <2>2. Append(stream[r], e) \in Seq(Event) /\ Len(stream[r]) \in Nat
        /\ Len(Append(stream[r], e)) = Len(stream[r]) + 1
    BY <2>1, AppendFacts
  <2>3. Len(stream[r]) < Buffer => Len(Append(stream[r], e)) <= Buffer
    BY <1>0, <2>2
  <2>4. stream' = IF Len(stream[r]) < Buffer
                  THEN [stream EXCEPT ![r] = Append(stream[r], e)] ELSE stream
    BY <1>3 DEF Arrive
  <2>5. stream' \in [Relay -> Seq(Event)] /\ \A q \in Relay : Len(stream'[q]) <= Buffer
    BY <1>0, <2>2, <2>3, <2>4 DEF TypeOK
  <2>6. TypeOK'
    BY <1>0, <1>3, <2>5 DEF TypeOK, Arrive
  <2>7. IsFiniteSet(outbox') /\ NobodyKeepsWaiting'
    BY <1>3, PublicationKept DEF Arrive
  <2> QED BY <2>6, <2>7 DEF RelaysInv
<1> QED BY <1>1, <1>2, <1>3

(* The steps of a publication.                                             *)
LEMMA PublishingPreserves ==
    ASSUME RelaysInv,
           \/ PublishWithOutbox
           \/ \E m \in Message : Publish(m)
           \/ \E r \in Relay : Judge(r)
    PROVE  RelaysInv'
<1> USE DEF linkVars, receiveVars
<1>0. TypeOK /\ IsFiniteSet(outbox) /\ NobodyKeepsWaiting
    BY DEF RelaysInv
<1>1. CASE PublishWithOutbox
  <2>1. pub \in Message
    BY <1>0, <1>1 DEF TypeOK, PublishWithOutbox
  <2>2. Enqueue(pub) \subseteq Message /\ IsFiniteSet(Enqueue(pub)) /\ Cardinality(Enqueue(pub)) <= OutboxLimit
    BY <1>0, <2>1, EnqueueType
  <2>3. outbox' \subseteq Message /\ IsFiniteSet(outbox') /\ Cardinality(outbox') <= OutboxLimit
    BY <1>0, <1>1, <2>2 DEF TypeOK, PublishWithOutbox
  <2>4. TypeOK'
    BY <1>0, <1>1, <2>3 DEF TypeOK, PublishWithOutbox
  <2>5. NobodyKeepsWaiting'
    BY <1>1 DEF NobodyKeepsWaiting, PublishWithOutbox
  <2> QED BY <2>3, <2>4, <2>5 DEF RelaysInv
<1>2. ASSUME NEW m \in Message, Publish(m) PROVE RelaysInv'
  <2>1. TypeOK'
    BY <1>0, <1>2 DEF TypeOK, Publish
  <2>2. NobodyKeepsWaiting' /\ outbox' = outbox
    BY <1>2 DEF NobodyKeepsWaiting, Publish
  <2> QED BY <1>0, <2>1, <2>2 DEF RelaysInv
<1>3. ASSUME NEW r \in Relay, Judge(r) PROVE RelaysInv'
  <2>1. PICK verdict \in {"accepted", "failed"} : part' = [part EXCEPT ![r] = verdict]
    BY <1>3 DEF Judge
  <2>2. part' \in [Relay -> {"none", "waiting", "orphaned", "accepted", "failed"}]
    BY <1>0, <2>1 DEF TypeOK
  <2>3. TypeOK'
    BY <1>0, <1>3, <2>2 DEF TypeOK, Judge
  <2>4. \A q \in Relay : part'[q] = IF q = r THEN verdict ELSE part[q]
    BY <1>0, <2>1 DEF TypeOK
  <2>5. NobodyKeepsWaiting' /\ outbox' = outbox
    BY <1>0, <1>3, <2>4 DEF NobodyKeepsWaiting, Judge
  <2> QED BY <1>0, <2>3, <2>5 DEF RelaysInv
<1> QED BY <1>1, <1>2, <1>3

(* The steps that end the reading, the set and the worker.                 *)
LEMMA EndingPreserves ==
    ASSUME RelaysInv, StartHold \/ Close \/ Cancel
    PROVE  RelaysInv'
<1> USE DEF linkVars, publishVars
<1>0. TypeOK /\ IsFiniteSet(outbox) /\ NobodyKeepsWaiting
    BY DEF RelaysInv
<1>a. ASSUME NobodyReads
      PROVE  /\ wire' \in [Relay -> SUBSET Event]
             /\ stream' \in [Relay -> Seq(Event)] /\ \A r \in Relay : Len(stream'[r]) <= Buffer
             /\ seen' \in Seq(Event) /\ Len(seen') <= InboxLimit
             /\ inbound' \in Seq(Event) /\ Len(inbound') <= Buffer
             /\ handed' \in [Event -> 0..2]
    BY <1>a, RelaysAssumption DEF NobodyReads
<1>1. CASE StartHold
  <2>1. TypeOK'
    BY <1>0, <1>1, <1>a DEF TypeOK, StartHold
  <2>2. IsFiniteSet(outbox') /\ NobodyKeepsWaiting'
    BY <1>1, PublicationKept DEF StartHold
  <2> QED BY <2>1, <2>2 DEF RelaysInv
<1>2. CASE Close
  <2>1. TypeOK'
    BY <1>0, <1>2, <1>a DEF TypeOK, Close, Disconnect
  <2>2. IsFiniteSet(outbox') /\ NobodyKeepsWaiting'
    BY <1>2, PublicationKept DEF Close
  <2> QED BY <2>1, <2>2 DEF RelaysInv
<1>3. CASE Cancel
  <2>1. part' \in [Relay -> {"none", "waiting", "orphaned", "accepted", "failed"}]
    BY <1>0, <1>3 DEF TypeOK, Cancel
  <2>2. TypeOK'
    BY <1>0, <1>3, <1>a, <2>1 DEF TypeOK, Cancel, Disconnect
  <2>3. NobodyKeepsWaiting' /\ outbox' = outbox
    BY <1>0, <1>3 DEF NobodyKeepsWaiting, Cancel
  <2> QED BY <1>0, <2>2, <2>3 DEF RelaysInv
<1> QED BY <1>1, <1>2, <1>3

(* Every step keeps the invariant.                                         *)
LEMMA NextPreserves == RelaysInv /\ [Next]_vars => RelaysInv'
<1> SUFFICES ASSUME RelaysInv, [Next]_vars PROVE RelaysInv'
    OBVIOUS
<1>1. CASE Poll \/ (\E e \in Event : PeerPublishes(e))
           \/ \E r \in Relay : Lose(r) \/ EndSubscription(r) \/ Redial(r)
    BY <1>1, LinksPreserve
<1>2. CASE Read \/ \E r \in Relay : Forward(r) \/ \E e \in Event : Arrive(r, e)
    BY <1>2, ReceivingPreserves
<1>3. CASE PublishWithOutbox \/ (\E m \in Message : Publish(m)) \/ \E r \in Relay : Judge(r)
    BY <1>3, PublishingPreserves
<1>4. CASE StartHold \/ Close \/ Cancel
    BY <1>4, EndingPreserves
<1>5. CASE UNCHANGED vars
  <2> USE DEF vars, linkVars, receiveVars, publishVars
  <2>1. TypeOK'
    BY <1>5 DEF RelaysInv, TypeOK
  <2>2. IsFiniteSet(outbox') /\ NobodyKeepsWaiting'
    BY <1>5, PublicationKept
  <2> QED BY <2>1, <2>2 DEF RelaysInv
<1> QED BY <1>1, <1>2, <1>3, <1>4, <1>5 DEF Next

(* The types hold and a publication waits only for a worker that runs,     *)
(* always (Publish, WebSocketRelay.read, PublishWithOutbox).               *)
THEOREM Invariant == Spec => []RelaysInv
BY InitEstablishes, NextPreserves, PTL DEF Spec

(* The channels, the inbox and the outbox stay within their limits, and    *)
(* every variable of the relay set is what the code declares it to be      *)
(* (RelaySet, Inbox.remember, Outbox.Enqueue).                             *)
THEOREM TypeCorrect == Spec => []TypeOK
<1>1. RelaysInv => TypeOK
    BY DEF RelaysInv
<1> QED BY <1>1, Invariant, PTL

(* A publication under way when its worker is cancelled has all its        *)
(* answers: however many connections were lost with a verdict on its way,  *)
(* nothing of it waits any longer, and it returns (Publish, wg.Wait).      *)
THEOREM StoppedWaitsForNobody == Spec => [](phase = "stopped" /\ pub # None => AllAnswered)
<1>1. ASSUME RelaysInv, phase = "stopped", pub # None PROVE AllAnswered
  <2>1. \A r \in Relay : part[r] \in {"none", "waiting", "orphaned", "accepted", "failed"}
    BY <1>1 DEF RelaysInv, TypeOK
  <2> QED BY <1>1, <2>1 DEF RelaysInv, NobodyKeepsWaiting, AllAnswered
<1>2. RelaysInv => (phase = "stopped" /\ pub # None => AllAnswered)
    BY <1>1
<1> QED BY <1>2, Invariant, PTL
-----------------------------------------------------------------------------
(* An event that the inbox does not remember finds room in it, if the      *)
(* inbox has room for every event there is.                                *)
LEMMA RoomToRemember ==
    ASSUME IsFiniteSet(Event), Cardinality(Event) <= InboxLimit,
           TypeOK, HandedInv, NEW e \in Event, e \notin Remembered
    PROVE  /\ Remember(e) = Append(seen, e)
           /\ Cardinality(Remembered \cup {e}) = Len(seen) + 1
           /\ IsFiniteSet(Remembered \cup {e})
<1>1. seen \in Seq(Event) /\ Len(seen) \in Nat /\ InboxLimit \in Nat
    BY RelaysAssumption DEF TypeOK
<1>2. Remembered \cup {e} \subseteq Event
    BY <1>1 DEF Remembered
<1>3. IsFiniteSet(Remembered) /\ Cardinality(Remembered) = Len(seen)
    BY DEF HandedInv
<1>4. IsFiniteSet(Remembered \cup {e}) /\ Cardinality(Remembered \cup {e}) = Len(seen) + 1
    BY <1>3, FS_AddElement
<1>5. Cardinality(Remembered \cup {e}) <= Cardinality(Event)
    BY <1>2, FS_Subset
<1>6. Cardinality(Event) \in Nat
    BY FS_CardinalityType
<1>7. Len(seen) < InboxLimit
    BY <1>1, <1>4, <1>5, <1>6
<1> QED BY <1>1, <1>4, <1>7 DEF Remember

(* What leaves the inbox and the way to the reader alone leaves what is    *)
(* known of them.                                                          *)
LEMMA WayKept ==
    ASSUME HandedInv, UNCHANGED <<seen, inbound, handed>>
    PROVE  HandedInv'
<1>1. Remembered' = Remembered
    BY DEF Remembered
<1>2. \A x \in Event : Rivalled(x)' <=> Rivalled(x)
    BY <1>1 DEF Rivalled
<1>3. OnceOnItsWay'
    BY <1>1, <1>2 DEF HandedInv, OnceOnItsWay
<1> QED BY <1>1, <1>3 DEF HandedInv

(* The forwarder puts nothing on its way that is on it already, or was     *)
(* read, and has no rival.                                                 *)
LEMMA ForwardOnce ==
    ASSUME IsFiniteSet(Event), Cardinality(Event) <= InboxLimit,
           TypeOK, HandedInv, NEW r \in Relay, Forward(r)
    PROVE  HandedInv'
<1> DEFINE e == Head(stream[r])
<1>1. /\ seen \in Seq(Event) /\ inbound \in Seq(Event)
      /\ Len(seen) \in Nat /\ Len(inbound) \in Nat
    BY DEF TypeOK
<1>2. stream[r] \in Seq(Event) /\ stream[r] # <<>>
    BY DEF TypeOK, Forward
<1>3. e \in Event
    BY <1>2, TailFacts
<1>4. /\ seen' = IF Verdict(e) = "new" THEN Remember(e) ELSE seen
      /\ inbound' = IF Verdict(e) = "duplicate" THEN inbound ELSE Append(inbound, e)
      /\ handed' = handed
    BY DEF Forward
<1> HIDE DEF e
<1>5. /\ Len(Append(inbound, e)) = Len(inbound) + 1
      /\ Append(inbound, e)[Len(inbound) + 1] = e
      /\ \A i \in 1..Len(inbound) : Append(inbound, e)[i] = inbound[i]
    BY <1>1, <1>3, AppendFacts
<1>6. CASE e \in Remembered
  <2>1. Verdict(e) = "duplicate"
    BY <1>6 DEF Verdict
  <2>2. seen' = seen /\ inbound' = inbound
    BY <1>4, <2>1
  <2> QED BY <1>4, <2>2, WayKept
<1>7. CASE e \notin Remembered /\ \E o \in Remembered : Position[o] = Position[e]
  <2>1. Verdict(e) = "conflict"
    BY <1>7 DEF Verdict
  <2>2. seen' = seen /\ inbound' = Append(inbound, e)
    BY <1>4, <2>1
  <2>3. Remembered' = Remembered
    BY <2>2 DEF Remembered
  <2>4. Rivalled(e)
    BY <1>7 DEF Rivalled
  <2>5. \A x \in Event : Rivalled(x)' <=> Rivalled(x)
    BY <2>3 DEF Rivalled
  <2>6. ASSUME NEW x \in Event, ~Rivalled(x)
        PROVE  x # e /\ \A i \in 1..Len(inbound') : inbound'[i] = x => i \in 1..Len(inbound) /\ inbound[i] = x
    BY <1>1, <1>5, <2>2, <2>4, <2>6
  <2>7. OnceOnItsWay'
    <3> SUFFICES ASSUME NEW x \in Event, ~Rivalled(x)
                 PROVE  /\ \A i \in 1..Len(inbound') : inbound'[i] = x =>
                              /\ x \in Remembered /\ handed[x] = 0
                              /\ \A j \in 1..Len(inbound') : inbound'[j] = x => i = j
                        /\ handed[x] > 0 => x \in Remembered /\ handed[x] = 1
      BY <1>4, <2>3, <2>5 DEF OnceOnItsWay
    <3> QED BY <2>6 DEF HandedInv, OnceOnItsWay
  <2> QED BY <2>2, <2>3, <2>7 DEF HandedInv
<1>8. CASE e \notin Remembered /\ ~\E o \in Remembered : Position[o] = Position[e]
  <2>1. Verdict(e) = "new"
    BY <1>8 DEF Verdict
  <2>2. inbound' = Append(inbound, e) /\ seen' = Append(seen, e)
    BY <1>3, <1>4, <1>8, <2>1, RoomToRemember
  <2>3. Len(seen') = Len(seen) + 1 /\ seen'[Len(seen) + 1] = e /\ \A i \in 1..Len(seen) : seen'[i] = seen[i]
    BY <1>1, <1>3, <2>2, AppendFacts
  <2>4. Remembered' = Remembered \cup {e}
    BY <1>1, <2>3 DEF Remembered
  <2>5. IsFiniteSet(Remembered') /\ Cardinality(Remembered') = Len(seen')
    BY <1>3, <1>8, <2>3, <2>4, RoomToRemember
  <2>6. ~Rivalled(e)
    BY <1>8 DEF Rivalled
  <2>7. handed[e] = 0 /\ \A i \in 1..Len(inbound) : inbound[i] # e
    <3>1. handed[e] \in 0..2
      BY <1>3 DEF TypeOK
    <3> QED BY <1>3, <1>8, <2>6, <3>1 DEF HandedInv, OnceOnItsWay
  <2>8. \A x \in Event : ~Rivalled(x)' => ~Rivalled(x)
    BY <2>4 DEF Rivalled
  <2>9. OnceOnItsWay'
    <3> SUFFICES ASSUME NEW x \in Event, ~Rivalled(x)
                 PROVE  /\ \A i \in 1..Len(inbound') : inbound'[i] = x =>
                              /\ x \in Remembered' /\ handed[x] = 0
                              /\ \A j \in 1..Len(inbound') : inbound'[j] = x => i = j
                        /\ handed[x] > 0 => x \in Remembered' /\ handed[x] = 1
      BY <1>4, <2>8 DEF OnceOnItsWay
    <3>1. CASE x = e
      <4>1. \A i \in 1..Len(inbound') : inbound'[i] = x => i = Len(inbound) + 1
        BY <1>1, <1>5, <2>2, <2>7, <3>1
      <4> QED BY <2>4, <2>7, <3>1, <4>1
    <3>2. CASE x # e
      <4>1. \A i \in 1..Len(inbound') : inbound'[i] = x => i \in 1..Len(inbound) /\ inbound[i] = x
        BY <1>1, <1>5, <2>2, <3>2
      <4>2. /\ \A i \in 1..Len(inbound) : inbound[i] = x =>
                  /\ x \in Remembered /\ handed[x] = 0
                  /\ \A j \in 1..Len(inbound) : inbound[j] = x => i = j
            /\ handed[x] > 0 => x \in Remembered /\ handed[x] = 1
        BY DEF HandedInv, OnceOnItsWay
      <4> QED BY <2>4, <4>1, <4>2
    <3> QED BY <3>1, <3>2
  <2> QED BY <2>5, <2>9 DEF HandedInv
<1> QED BY <1>6, <1>7, <1>8

(* What is read was not read before, unless it has a rival, and does not   *)
(* come again.                                                             *)
LEMMA ReadOnce ==
    ASSUME TypeOK, HandedInv, Read
    PROVE  HandedInv'
<1> DEFINE e == Head(inbound)
<1>1. inbound \in Seq(Event) /\ inbound # <<>>
    BY DEF TypeOK, Read
<1>2. /\ e \in Event /\ Len(inbound) \in Nat \ {0} /\ Len(Tail(inbound)) = Len(inbound) - 1
      /\ e = inbound[1]
      /\ \A i \in 1..Len(Tail(inbound)) : i + 1 \in 1..Len(inbound) /\ Tail(inbound)[i] = inbound[i + 1]
    BY <1>1, TailFacts
<1>3. /\ inbound' = Tail(inbound) /\ seen' = seen
      /\ handed' = [handed EXCEPT ![e] = IF @ < 2 THEN @ + 1 ELSE @]
    BY DEF Read
<1> HIDE DEF e
<1>4. Remembered' = Remembered
    BY <1>3 DEF Remembered
<1>5. \A x \in Event : Rivalled(x)' <=> Rivalled(x)
    BY <1>4 DEF Rivalled
<1>6. \A x \in Event : handed[x] \in 0..2 /\ handed'[x] = IF x = e /\ handed[x] < 2 THEN handed[x] + 1 ELSE handed[x]
    BY <1>2, <1>3 DEF TypeOK
<1>7. OnceOnItsWay'
  <2> SUFFICES ASSUME NEW x \in Event, ~Rivalled(x)
               PROVE  /\ \A i \in 1..Len(inbound') : inbound'[i] = x =>
                            /\ x \in Remembered /\ handed'[x] = 0
                            /\ \A j \in 1..Len(inbound') : inbound'[j] = x => i = j
                      /\ handed'[x] > 0 => x \in Remembered /\ handed'[x] = 1
    BY <1>4, <1>5 DEF OnceOnItsWay
  <2>1. /\ \A i \in 1..Len(inbound) : inbound[i] = x =>
              /\ x \in Remembered /\ handed[x] = 0
              /\ \A j \in 1..Len(inbound) : inbound[j] = x => i = j
        /\ handed[x] > 0 => x \in Remembered /\ handed[x] = 1
    BY DEF HandedInv, OnceOnItsWay
  <2>2. \A i \in 1..Len(inbound') : i \in Nat /\ i + 1 \in 1..Len(inbound) /\ inbound'[i] = inbound[i + 1]
    BY <1>2, <1>3
  <2>3. CASE x = e
    <3>1. 1 \in 1..Len(inbound) /\ inbound[1] = x
      BY <1>2, <2>3
    <3>2. x \in Remembered /\ handed[x] = 0 /\ \A j \in 1..Len(inbound) : inbound[j] = x => j = 1
      BY <2>1, <3>1
    <3>3. handed'[x] = 1
      BY <1>6, <2>3, <3>2
    <3>4. \A i \in 1..Len(inbound') : inbound'[i] # x
      BY <2>2, <3>2
    <3> QED BY <3>2, <3>3, <3>4
  <2>4. CASE x # e
    <3>1. handed'[x] = handed[x]
      BY <1>6, <2>4
    <3>2. ASSUME NEW i \in 1..Len(inbound'), inbound'[i] = x,
                 NEW j \in 1..Len(inbound'), inbound'[j] = x
          PROVE  i = j
      <4>1. i + 1 = j + 1
        BY <2>1, <2>2, <3>2
      <4> QED BY <2>2, <4>1
    <3>3. \A i \in 1..Len(inbound') : inbound'[i] = x => x \in Remembered /\ handed[x] = 0
      BY <2>1, <2>2
    <3> QED BY <2>1, <3>1, <3>2, <3>3
  <2> QED BY <2>3, <2>4
<1> QED BY <1>3, <1>4, <1>7 DEF HandedInv

(* The other steps leave the inbox and the way to the reader alone, or     *)
(* empty them.                                                             *)
LEMMA NextHandsOnce ==
    ASSUME IsFiniteSet(Event), Cardinality(Event) <= InboxLimit,
           TypeOK, HandedInv, [Next]_vars
    PROVE  HandedInv'
<1>1. CASE Read
    BY <1>1, ReadOnce
<1>2. CASE \E r \in Relay : Forward(r)
    BY <1>2, ForwardOnce
<1>3. ASSUME NobodyReads PROVE HandedInv'
  <2>1. Remembered' = {}
    BY <1>3 DEF Remembered, NobodyReads
  <2>2. IsFiniteSet({}) /\ Cardinality({}) = 0
    BY FS_EmptySet
  <2> QED BY <1>3, <2>1, <2>2 DEF HandedInv, OnceOnItsWay, NobodyReads
<1>4. CASE UNCHANGED <<seen, inbound, handed>>
    BY <1>4, WayKept
<1>5. CASE StartHold \/ Close \/ Cancel
    BY <1>3, <1>5 DEF StartHold, Close, Cancel
<1>6. CASE UNCHANGED vars
    BY <1>4, <1>6 DEF vars, receiveVars
<1>7. CASE Poll \/ PublishWithOutbox \/ (\E e \in Event : PeerPublishes(e)) \/ \E m \in Message : Publish(m)
    BY <1>4, <1>7 DEF Poll, PublishWithOutbox, PeerPublishes, Publish, receiveVars
<1>8. CASE \E r \in Relay : Lose(r) \/ EndSubscription(r) \/ Redial(r) \/ Judge(r) \/ \E e \in Event : Arrive(r, e)
    BY <1>4, <1>8 DEF Lose, EndSubscription, Redial, Judge, Arrive, receiveVars
<1> QED BY <1>1, <1>2, <1>5, <1>6, <1>7, <1>8 DEF Next

(* Redundant relays, repeated polls and reconnections hand an event to the *)
(* reader once, unless another event has its position, as long as the      *)
(* inbox does not have to forget (Observe, forward).                       *)
THEOREM HandsOnce ==
    ASSUME IsFiniteSet(Event), Cardinality(Event) <= InboxLimit
    PROVE  Spec => []HandedOnce
<1>1. Init => HandedInv
    BY InitEstablishes
<1>2. TypeOK /\ HandedInv /\ [Next]_vars => HandedInv'
    BY NextHandsOnce
<1>3. HandedInv => HandedOnce
  <2> SUFFICES ASSUME HandedInv, NEW e \in Event, handed[e] = 2
               PROVE  Rivalled(e)
    BY DEF HandedOnce, Rivalled
  <2> QED BY DEF HandedInv, OnceOnItsWay
<1> QED BY <1>1, <1>2, <1>3, TypeCorrect, PTL DEF Spec
=============================================================================
