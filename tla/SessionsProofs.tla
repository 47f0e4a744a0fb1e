--------------------------- MODULE SessionsProofs ---------------------------
(* The sessions of a node, for every finite set of peers, every set of     *)
(* configurations and every limit: attempts and slots balance, claims are  *)
(* apart, a revoked peer is closed, only the sweep takes a held session    *)
(* out of the table and a peer that moves is followed once per window.     *)
EXTENDS Sessions, FiniteSetTheorems, TLAPS

Negotiators == {p \in Peer : pc[p] \in Attempting}

Step == {"off", "ready", "backoff", "exited"} \cup Attempting

(* The other address is an address.                                        *)
LEMMA ElsewhereType == \A a \in Address : Elsewhere(a) \in Address
BY DEF Elsewhere, Address

(* A slot is what its name says.                                           *)
LEMMA SlotForType ==
    ASSUME NEW c \in Config, NEW p \in Peer
    PROVE  SlotFor(c, p) \in Slot
<1>1. c.base \in Nat /\ Offset[p] \in Nat
    BY SessionsAssumption DEF IsConfig
<1> QED BY <1>1 DEF SlotFor, Slot

(* Recording something in an entry of the table leaves it an entry, with   *)
(* the rest of it as it was.                                               *)
LEMMA SessionType ==
    ASSUME NEW e \in Session
    PROVE  /\ e # None
           /\ \A ph \in {"open", "failed", "established"} :
                /\ [e EXCEPT !.phase = ph] \in Session
                /\ [e EXCEPT !.phase = ph].phase = ph
           /\ RecordMove(e) \in Session
           /\ RecordMove(e).phase = e.phase
<1>1. e # None
    BY NoneAssumption
<1>2. e.endpoint \in Address /\ Elsewhere(e.endpoint) \in Address
    BY ElsewhereType DEF Session
<1> QED BY <1>1, <1>2 DEF Session, RecordMove

(* Counting those who have a slot: a worker that takes one is one more, a  *)
(* worker that gives it back one less.                                     *)
LEMMA NegotiatorsCounted ==
    ASSUME TypeOK, NEW p \in Peer, NEW step \in Step, pc' = [pc EXCEPT ![p] = step]
    PROVE  /\ Cardinality(Negotiators) \in Nat
           /\ (pc[p] \in Attempting <=> step \in Attempting) =>
                Cardinality(Negotiators') = Cardinality(Negotiators)
           /\ (pc[p] \notin Attempting /\ step \in Attempting) =>
                Cardinality(Negotiators') = Cardinality(Negotiators) + 1
           /\ (pc[p] \in Attempting /\ step \notin Attempting) =>
                /\ Cardinality(Negotiators) > 0
                /\ Cardinality(Negotiators') = Cardinality(Negotiators) - 1
<1>1. IsFiniteSet(Negotiators)
    BY SessionsAssumption, FS_Subset DEF Negotiators
<1>2. Cardinality(Negotiators) \in Nat
    BY <1>1, FS_CardinalityType
<1>3. \A q \in Peer : pc'[q] = IF q = p THEN step ELSE pc[q]
    BY DEF TypeOK
<1>4. CASE pc[p] \in Attempting <=> step \in Attempting
  <2>1. Negotiators' = Negotiators
    BY <1>3, <1>4 DEF Negotiators
  <2> QED BY <1>2, <1>4, <2>1
<1>5. CASE pc[p] \notin Attempting /\ step \in Attempting
  <2>1. Negotiators' = Negotiators \cup {p} /\ p \notin Negotiators
    BY <1>3, <1>5 DEF Negotiators
  <2>2. Cardinality(Negotiators') = Cardinality(Negotiators) + 1
    BY <1>1, <2>1, FS_AddElement
  <2> QED BY <1>2, <1>5, <2>2
<1>6. CASE pc[p] \in Attempting /\ step \notin Attempting
  <2>1. Negotiators' = Negotiators \ {p} /\ p \in Negotiators
    BY <1>3, <1>6 DEF Negotiators
  <2>2. Cardinality(Negotiators') = Cardinality(Negotiators) - 1
    BY <1>1, <2>1, FS_RemoveElement
  <2>3. IsFiniteSet(Negotiators \ {p})
    BY <1>1, FS_RemoveElement
  <2>4. Cardinality(Negotiators') \in Nat
    BY <2>1, <2>3, FS_CardinalityType
  <2> QED BY <1>2, <1>6, <2>2, <2>4
<1> QED BY <1>4, <1>5, <1>6

(* The specification starts in the invariant.                              *)
LEMMA InitEstablishes == Init => SessionsInv
<1> SUFFICES ASSUME Init PROVE SessionsInv
    OBVIOUS
<1> USE DEF Init
<1>1. TypeOK
    BY SessionsAssumption DEF TypeOK
<1>2. SlotsBalanced
  <2>1. {p \in Peer : pc[p] \in Attempting} = {}
    BY DEF Attempting
  <2> QED BY <2>1, FS_EmptySet, SessionsAssumption DEF SlotsBalanced
<1>3. WorkersEquipped /\ WorkersListed /\ WorkersPermitted
    BY DEF WorkersEquipped, WorkersListed, WorkersPermitted
<1>4. NothingOpen /\ ClaimsApart /\ HeldIsOwn /\ RoamAdmitted
    BY DEF NothingOpen, ClaimsApart, HeldIsOwn, Holding, RoamAdmitted
<1> QED BY <1>1, <1>2, <1>3, <1>4 DEF SessionsInv

(* What the steps of a worker have in common: it goes from one place of    *)
(* its loop to another, and of the table and the host it writes its own    *)
(* peer's part.                                                            *)
Moves(p, step, entry) ==
    /\ pc[p] # "off" /\ pc' = [pc EXCEPT ![p] = step]
    /\ table' = [table EXCEPT ![p] = entry]
    /\ UNCHANGED <<limit, loop, cfg, next, todo, workers, owed, told, conf, cancelled>>
    /\ had' \in [Peer -> BOOLEAN]
    /\ iface' \in [Peer -> Interface \cup {None}]

(* Taking a slot and giving it back.                                       *)
Counts(p, step) ==
    \/ (pc[p] \in Attempting <=> step \in Attempting) /\ attempting' = attempting
    \/ /\ pc[p] \notin Attempting /\ step \in Attempting
       /\ attempting < limit /\ attempting' = attempting + 1
    \/ /\ pc[p] \in Attempting /\ step \notin Attempting
       /\ attempting' = IF attempting > 0 THEN attempting - 1 ELSE 0

(* What an entry may be at the place the worker goes to.                   *)
Fits(p, step, entry) ==
    /\ step \in {"ready", "backoff", "exited", "build", "connect"} =>
            (entry # None => entry.phase = "failed")
    /\ step \in Holding => (entry # None => entry.phase = "established")
    /\ (step = "roam" /\ entry # None) => ~entry.roamed

(* A worker's step that counts its slot, leaves a fitting entry and claims *)
(* only what is free keeps the invariant.                                  *)
LEMMA MoveKeeps ==
    ASSUME SessionsInv, NEW p \in Peer, NEW step \in Step \ {"off"},
           NEW entry \in Session \cup {None},
           Moves(p, step, entry), Counts(p, step), Fits(p, step, entry),
           slots' \in [Peer -> Slot \cup {None}], ClaimsApart',
           \A q \in Peer \ {p} : slots'[q] = slots[q],
           step \in {"connect", "open"} => slots'[p] # None
    PROVE  SessionsInv'
<1> USE DEF Moves
<1>a. TypeOK
    BY DEF SessionsInv
<1>b. \A q \in Peer : /\ pc'[q] = IF q = p THEN step ELSE pc[q]
                      /\ table'[q] = IF q = p THEN entry ELSE table[q]
    BY <1>a DEF TypeOK
<1>1. SlotsBalanced'
  <2>1. attempting = Cardinality(Negotiators) /\ attempting <= limit
    BY DEF SessionsInv, SlotsBalanced, Negotiators
  <2>2. limit \in Nat /\ step \in Step
    BY <1>a, SessionsAssumption DEF TypeOK
  <2>3. /\ Cardinality(Negotiators) \in Nat
        /\ (pc[p] \in Attempting <=> step \in Attempting) =>
                Cardinality(Negotiators') = Cardinality(Negotiators)
        /\ (pc[p] \notin Attempting /\ step \in Attempting) =>
                Cardinality(Negotiators') = Cardinality(Negotiators) + 1
        /\ (pc[p] \in Attempting /\ step \notin Attempting) =>
                /\ Cardinality(Negotiators) > 0
                /\ Cardinality(Negotiators') = Cardinality(Negotiators) - 1
    BY <1>a, <2>2, NegotiatorsCounted
  <2>4. attempting' = Cardinality(Negotiators') /\ attempting' <= limit
    BY <2>1, <2>2, <2>3 DEF Counts
  <2> QED BY <2>4 DEF SlotsBalanced, Negotiators
<1>2. TypeOK'
  <2>1. attempting' \in Nat
    BY <1>a, SessionsAssumption DEF Counts, TypeOK
  <2>2. pc' \in [Peer -> Step] /\ table' \in [Peer -> Session \cup {None}]
    BY <1>a DEF TypeOK, Step
  <2> QED BY <1>a, <2>1, <2>2 DEF TypeOK, Step
<1>3. WorkersEquipped'
    BY <1>b DEF SessionsInv, WorkersEquipped
<1>4. WorkersListed' /\ WorkersPermitted'
  <2>1. \A q \in Peer : pc'[q] = "off" <=> pc[q] = "off"
    BY <1>b
  <2>2. workers \subseteq Peer
    BY <1>a DEF TypeOK
  <2> QED BY <2>1, <2>2 DEF SessionsInv, WorkersListed, WorkersPermitted
<1>5. NothingOpen'
  <2>1. told \subseteq Peer /\ p \notin told
    BY <1>a DEF TypeOK, SessionsInv, NothingOpen
  <2> QED BY <1>b, <2>1 DEF SessionsInv, NothingOpen, Fits
<1>6. HeldIsOwn' /\ RoamAdmitted'
    BY <1>b DEF SessionsInv, HeldIsOwn, RoamAdmitted, Fits
<1> QED BY <1>1, <1>2, <1>3, <1>4, <1>5, <1>6 DEF SessionsInv

(* The same where nothing is claimed.                                      *)
LEMMA MoveClaimsNothing ==
    ASSUME SessionsInv, NEW p \in Peer, NEW step \in Step \ {"off"},
           NEW entry \in Session \cup {None},
           Moves(p, step, entry), Counts(p, step), Fits(p, step, entry),
           slots' = slots, step = "connect" => FALSE,
           step = "open" => slots[p] # None
    PROVE  SessionsInv'
<1>1. slots' \in [Peer -> Slot \cup {None}] /\ ClaimsApart'
    BY DEF SessionsInv, TypeOK, ClaimsApart
<1> QED BY <1>1, MoveKeeps

(* The same where the table is left alone, too.                            *)
LEMMA MoveLeavesTable ==
    ASSUME SessionsInv, NEW p \in Peer, NEW step \in Step \ {"off", "connect", "open"},
           pc[p] # "off", Goto(p, step), WorkerOnly, Counts(p, step),
           Fits(p, step, table[p]), had' \in [Peer -> BOOLEAN], UNCHANGED <<slots, table, iface>>
    PROVE  SessionsInv'
<1>1. table[p] \in Session \cup {None} /\ table' = [table EXCEPT ![p] = table[p]]
    BY DEF SessionsInv, TypeOK
<1>2. Moves(p, step, table[p])
    BY <1>1 DEF Moves, Goto, WorkerOnly, serviceVars, SessionsInv, TypeOK
<1> QED BY <1>1, <1>2, MoveClaimsNothing

(* A worker between attempts: it sees the end of its context, waits, or    *)
(* asks for a slot.                                                        *)
LEMMA PauseKeeps ==
    ASSUME SessionsInv, NEW p \in Peer,
           Exit(p) \/ Retry(p) \/ BeginAttempt(p)
    PROVE  SessionsInv'
<1>a. pc[p] \in {"ready", "backoff"} => (table[p] # None => table[p].phase = "failed")
    BY DEF SessionsInv, NothingOpen
<1>b. ASSUME NEW step \in {"ready", "backoff", "exited", "build"}, pc[p] \in {"ready", "backoff"}
      PROVE  Fits(p, step, table[p])
    BY <1>a, <1>b DEF Fits, Holding
<1>c. had \in [Peer -> BOOLEAN] /\ limit \in Nat /\ attempting \in Nat
    BY SessionsAssumption DEF SessionsInv, TypeOK
<1>1. CASE Exit(p)
  <2>1. Counts(p, "exited")
    BY <1>1 DEF Exit, Counts, Attempting
  <2> QED BY <1>1, <1>b, <1>c, <2>1, MoveLeavesTable DEF Exit, Step
<1>2. CASE Retry(p)
  <2>1. Counts(p, "ready")
    BY <1>2 DEF Retry, Counts, Attempting
  <2> QED BY <1>2, <1>b, <1>c, <2>1, MoveLeavesTable DEF Retry, Step
<1>3. CASE BeginAttempt(p) /\ attempting < limit
  <2>1. Counts(p, "build")
    BY <1>3 DEF BeginAttempt, Counts, Attempting
  <2> QED BY <1>3, <1>b, <1>c, <2>1, MoveLeavesTable DEF BeginAttempt, Step, Attempting
<1>4. CASE BeginAttempt(p) /\ ~(attempting < limit)
  <2>1. Counts(p, "backoff")
    BY <1>4 DEF BeginAttempt, Counts, Attempting
  <2> QED BY <1>4, <1>b, <1>c, <2>1, MoveLeavesTable DEF BeginAttempt, Step
<1> QED BY <1>1, <1>2, <1>3, <1>4

(* An attempt that ends gives its slot back and leaves no session open.    *)
LEMMA EndKeeps ==
    ASSUME SessionsInv, NEW p \in Peer, pc[p] \in Attempting, EndAttempt(p),
           NEW entry \in Session \cup {None}, entry # None => entry.phase = "failed",
           table' = [table EXCEPT ![p] = entry],
           had' = had, iface' \in [Peer -> Interface \cup {None}],
           slots' \in [Peer -> Slot \cup {None}], ClaimsApart',
           \A q \in Peer \ {p} : slots'[q] = slots[q]
    PROVE  SessionsInv'
<1>1. Moves(p, "backoff", entry)
    BY DEF Moves, EndAttempt, Goto, WorkerOnly, serviceVars, SessionsInv, TypeOK, Attempting
<1>2. Counts(p, "backoff")
    BY DEF Counts, EndAttempt, Attempting
<1>3. Fits(p, "backoff", entry)
    BY DEF Fits, Holding
<1> QED BY <1>1, <1>2, <1>3, MoveKeeps DEF Step

(* Claim: what a peer gets clashes with nothing that is claimed.           *)
LEMMA ClaimKeeps ==
    ASSUME SessionsInv, NEW p \in Peer, pc[p] = "build", Claimable(p),
           slots' = [slots EXCEPT ![p] = IF @ = None THEN SlotFor(conf[p], p) ELSE @]
    PROVE  /\ slots' \in [Peer -> Slot \cup {None}]
           /\ slots'[p] # None
           /\ \A q \in Peer \ {p} : slots'[q] = slots[q]
           /\ ClaimsApart'
<1>a. slots \in [Peer -> Slot \cup {None}]
    BY DEF SessionsInv, TypeOK
<1>b. SlotFor(conf[p], p) \in Slot
    BY SlotForType DEF SessionsInv, WorkersEquipped
<1>c. SlotFor(conf[p], p) # None
    BY <1>b, NoneAssumption
<1>1. /\ slots' \in [Peer -> Slot \cup {None}] /\ slots'[p] # None
      /\ \A q \in Peer \ {p} : slots'[q] = slots[q]
    BY <1>a, <1>b, <1>c
<1>2. CASE slots[p] # None
  <2>1. \A q \in Peer : slots'[q] = slots[q]
    BY <1>a, <1>2
  <2> QED BY <1>1, <2>1 DEF SessionsInv, ClaimsApart
<1>3. CASE slots[p] = None
  <2>1. slots'[p] = SlotFor(conf[p], p)
    BY <1>a, <1>3
  <2>2. \A q \in Peer \ {p} : slots[q] # None =>
            /\ slots'[p].name # slots[q].name
            /\ slots'[p].port # slots[q].port \/ slots'[p].port = 0
    BY <1>3, <2>1 DEF Claimable, Clashes
  <2> QED BY <1>1, <2>2 DEF SessionsInv, ClaimsApart
<1> QED BY <1>1, <1>2, <1>3

(* An attempt up to the end of Connect's first part.                       *)
LEMMA SetupKeeps ==
    ASSUME SessionsInv, NEW p \in Peer,
           ClaimRefused(p) \/ Build(p) \/ Begin(p) \/ ConnectFails(p)
    PROVE  SessionsInv'
<1>a. TypeOK /\ ClaimsApart
    BY DEF SessionsInv
<1>b. table[p] \in Session \cup {None} /\ table = [table EXCEPT ![p] = table[p]]
    BY <1>a DEF TypeOK
<1>c. pc[p] \in {"build", "connect"} => (table[p] # None => table[p].phase = "failed")
    BY DEF SessionsInv, NothingOpen
<1>d. slots' = slots => slots' \in [Peer -> Slot \cup {None}] /\ ClaimsApart'
    BY <1>a DEF TypeOK, ClaimsApart
<1>e. iface' = iface => iface' \in [Peer -> Interface \cup {None}]
    BY <1>a DEF TypeOK
<1>1. CASE ClaimRefused(p)
    BY <1>1, <1>b, <1>c, <1>d, <1>e, EndKeeps DEF ClaimRefused, Attempting
<1>2. CASE ConnectFails(p)
    BY <1>2, <1>b, <1>c, <1>d, <1>e, EndKeeps DEF ConnectFails, Attempting
<1>3. CASE Build(p)
  <2>1. /\ slots' \in [Peer -> Slot \cup {None}] /\ ClaimsApart' /\ slots'[p] # None
        /\ \A q \in Peer \ {p} : slots'[q] = slots[q]
    BY <1>3, ClaimKeeps DEF Build
  <2>2. CASE EndAttempt(p)
    BY <1>3, <1>b, <1>c, <1>e, <2>1, <2>2, EndKeeps DEF Build, Attempting
  <2>3. CASE Goto(p, "connect") /\ WorkerOnly /\ UNCHANGED attempting
    <3>1. Moves(p, "connect", table[p])
      BY <1>3, <1>a, <1>b, <2>3 DEF Build, Moves, Goto, WorkerOnly, serviceVars, TypeOK
    <3>2. Counts(p, "connect") /\ Fits(p, "connect", table[p])
      BY <1>3, <1>c, <2>3 DEF Build, Counts, Fits, Attempting, Holding
    <3> QED BY <1>b, <2>1, <3>1, <3>2, MoveKeeps DEF Step, Attempting
  <2> QED BY <1>3, <2>2, <2>3 DEF Build
<1>4. CASE Begin(p)
  <2>1. NewSession \in Session /\ NewSession.phase = "open"
    BY DEF NewSession, Session, Address
  <2>2. Moves(p, "open", NewSession)
    BY <1>4, <1>a DEF Begin, Moves, Goto, WorkerOnly, serviceVars, TypeOK
  <2>3. Counts(p, "open") /\ Fits(p, "open", NewSession)
    BY <1>4, <2>1 DEF Begin, Counts, Fits, Attempting, Holding
  <2>4. slots[p] # None
    BY <1>4 DEF Begin, SessionsInv, WorkersEquipped
  <2> QED BY <1>4, <2>1, <2>2, <2>3, <2>4, MoveClaimsNothing DEF Begin, Step, Attempting
<1> QED BY <1>1, <1>2, <1>3, <1>4

(* Failing a session leaves a failed one, or none where it had gone.       *)
LEMMA FailKeeps ==
    ASSUME SessionsInv, NEW p \in Peer, pc[p] \in Attempting, EndAttempt(p), Fail(p),
           UNCHANGED <<had, slots>>, iface' \in {iface, [iface EXCEPT ![p] = None]}
    PROVE  SessionsInv'
<1>a. TypeOK /\ ClaimsApart
    BY DEF SessionsInv
<1> DEFINE entry == IF table[p] = None THEN None ELSE [table[p] EXCEPT !.phase = "failed"]
<1>1. entry \in Session \cup {None} /\ (entry # None => entry.phase = "failed")
  <2>1. table[p] \in Session \cup {None}
    BY <1>a DEF TypeOK
  <2>2. CASE table[p] = None
    BY <2>2
  <2>3. CASE table[p] \in Session
    <3>1. table[p] # None
      BY <2>3, SessionType
    <3>2. /\ [table[p] EXCEPT !.phase = "failed"] \in Session
          /\ [table[p] EXCEPT !.phase = "failed"].phase = "failed"
      BY <2>3, SessionType
    <3> QED BY <3>1, <3>2
  <2> QED BY <2>1, <2>2, <2>3
<1>2. table' = [table EXCEPT ![p] = entry]
    BY DEF Fail
<1>3. slots' \in [Peer -> Slot \cup {None}] /\ ClaimsApart'
    BY <1>a DEF TypeOK, ClaimsApart
<1>4. iface' \in [Peer -> Interface \cup {None}]
    BY <1>a DEF TypeOK
<1> HIDE DEF entry
<1> QED BY <1>1, <1>2, <1>3, <1>4, EndKeeps

(* A session that comes up, or does not.                                   *)
LEMMA ConnectKeeps ==
    ASSUME SessionsInv, NEW p \in Peer,
           Abandon(p) \/ Configure(p) \/ Unconfirmed(p) \/ VerifyFails(p) \/ Establish(p)
    PROVE  SessionsInv'
<1>a. TypeOK
    BY DEF SessionsInv
<1>1. CASE Abandon(p)
    BY <1>1, FailKeeps DEF Abandon, Attempting
<1>2. CASE Unconfirmed(p)
    BY <1>2, FailKeeps DEF Unconfirmed, Attempting
<1>3. CASE VerifyFails(p)
    BY <1>3, FailKeeps DEF VerifyFails, Attempting
<1>4. CASE Configure(p)
  <2>1. slots[p] \in Slot /\ table[p] \in Session
    BY <1>4, <1>a DEF Configure, SessionsInv, WorkersEquipped, TypeOK
  <2>2. [port |-> slots[p].port, keyed |-> TRUE, at |-> table[p].endpoint] \in Interface
    BY <2>1 DEF Slot, Session, Interface
  <2>3. iface' \in [Peer -> Interface \cup {None}]
    BY <1>4, <1>a, <2>2 DEF Configure, TypeOK
  <2>4. Moves(p, "applied", table[p])
    BY <1>4, <1>a, <2>3 DEF Configure, Moves, Goto, WorkerOnly, serviceVars, TypeOK
  <2>5. Counts(p, "applied") /\ Fits(p, "applied", table[p])
    BY <1>4, <1>a DEF Configure, Counts, Fits, Attempting, Holding
  <2> QED BY <1>4, <2>1, <2>4, <2>5, MoveClaimsNothing DEF Configure, Step, Attempting
<1>5. CASE Establish(p)
  <2> DEFINE entry == [table[p] EXCEPT !.phase = "established"]
  <2>1. table[p] \in Session
    BY <1>5, <1>a DEF Establish, TypeOK
  <2>2. entry \in Session
    BY <2>1, SessionType
  <2>3. Moves(p, "enter", entry)
    BY <1>5, <1>a DEF Establish, Moves, Goto, WorkerOnly, serviceVars, TypeOK
  <2>4. Counts(p, "enter") /\ Fits(p, "enter", entry)
    BY <1>5 DEF Establish, Counts, Fits, Attempting, Holding
  <2> HIDE DEF entry
  <2> QED BY <1>5, <2>2, <2>3, <2>4, MoveClaimsNothing DEF Establish, Step, Attempting
<1> QED BY <1>1, <1>2, <1>3, <1>4, <1>5

(* A session that is held, followed and released.                          *)
LEMMA HoldKeeps ==
    ASSUME SessionsInv, NEW p \in Peer,
           \/ EnterHold(p) \/ HoldCancelled(p) \/ HoldDropped(p) \/ Release(p)
           \/ FollowRoam(p) \/ Roam(p)
    PROVE  SessionsInv'
<1>a. TypeOK /\ ClaimsApart
    BY DEF SessionsInv
<1>b. /\ had \in [Peer -> BOOLEAN]
      /\ [had EXCEPT ![p] = @ \/ table[p] # None] \in [Peer -> BOOLEAN]
    BY <1>a, Zenon DEF TypeOK
<1>c. pc[p] \in Holding => (table[p] # None => table[p].phase = "established")
    BY DEF SessionsInv, HeldIsOwn
<1>1. CASE EnterHold(p) /\ table[p] # None /\ table[p].phase = "established"
  <2>1. Counts(p, "hold") /\ Fits(p, "hold", table[p])
    BY <1>1 DEF EnterHold, Counts, Fits, Attempting
  <2> QED BY <1>1, <1>b, <2>1, MoveLeavesTable DEF EnterHold, Step, Attempting
<1>2. CASE \/ EnterHold(p) /\ ~(table[p] # None /\ table[p].phase = "established")
           \/ HoldCancelled(p) \/ HoldDropped(p)
  <2>1. /\ pc[p] \in {"enter", "hold"} /\ Goto(p, "release") /\ WorkerOnly
        /\ had' \in [Peer -> BOOLEAN] /\ UNCHANGED <<attempting, slots, table, iface>>
    BY <1>2, <1>b DEF EnterHold, HoldCancelled, HoldDropped
  <2>2. Counts(p, "release") /\ Fits(p, "release", table[p])
    BY <2>1 DEF Counts, Fits, Attempting, Holding
  <2> QED BY <2>1, <2>2, MoveLeavesTable DEF Step, Attempting
<1>3. CASE Release(p)
  <2>1. slots' \in [Peer -> Slot \cup {None}] /\ ClaimsApart'
    BY <1>3, <1>a DEF Release, TypeOK, ClaimsApart
  <2>2. iface' \in [Peer -> Interface \cup {None}]
    BY <1>3, <1>a DEF Release, TypeOK
  <2> QED BY <1>3, <2>1, <2>2, EndKeeps DEF Release, Attempting
<1>4. CASE FollowRoam(p)
  <2>1. Counts(p, "roam") /\ Fits(p, "roam", table[p])
    BY <1>4, <1>c DEF FollowRoam, MayFollow, Counts, Fits, Attempting, Holding
  <2> QED BY <1>4, <1>b, <2>1, MoveLeavesTable DEF FollowRoam, Step, Attempting
<1>5. CASE Roam(p)
  <2>1. /\ table[p] \in Session \cup {None}
        /\ table[p] # None => table[p].phase = "established"
    BY <1>5, <1>a, <1>c DEF Roam, Holding, TypeOK
  <2>2. CASE UNCHANGED <<table, iface>>
    <3>1. Counts(p, "hold") /\ Fits(p, "hold", table[p])
      BY <1>5, <2>1 DEF Roam, Counts, Fits, Attempting
    <3> QED BY <1>5, <1>b, <2>2, <3>1, MoveLeavesTable DEF Roam, Step, Attempting
  <2>3. ASSUME NEW a \in Address, iface[p] # None,
               table' = [table EXCEPT ![p] = IF @ = None THEN None ELSE RecordMove(@)],
               iface' = [iface EXCEPT ![p] = [@ EXCEPT !.keyed = FALSE, !.at = a]]
        PROVE  SessionsInv'
    <3> DEFINE entry == IF table[p] = None THEN None ELSE RecordMove(table[p])
               moved == [iface[p] EXCEPT !.keyed = FALSE, !.at = a]
    <3>1. entry \in Session \cup {None} /\ (entry # None => entry.phase = "established")
      <4>1. CASE table[p] = None
        BY <4>1
      <4>2. CASE table[p] # None
        BY <2>1, <4>2, SessionType
      <4> QED BY <4>1, <4>2
    <3>2. table' = [table EXCEPT ![p] = entry] /\ iface' = [iface EXCEPT ![p] = moved]
      BY <2>3
    <3>3. iface[p] \in Interface /\ iface \in [Peer -> Interface \cup {None}]
      BY <1>a, <2>3 DEF TypeOK
    <3>4. moved \in Interface
      BY <2>3, <3>3 DEF Interface
    <3> HIDE DEF moved, entry
    <3>5. iface' \in [Peer -> Interface \cup {None}]
      BY <3>2, <3>3, <3>4
    <3>6. Moves(p, "hold", entry)
      BY <1>5, <1>a, <3>2, <3>5 DEF Roam, Moves, Goto, WorkerOnly, serviceVars, TypeOK
    <3>7. Counts(p, "hold") /\ Fits(p, "hold", entry)
      BY <1>5, <3>1 DEF Roam, Counts, Fits, Attempting
    <3> QED BY <1>5, <3>1, <3>6, <3>7, MoveClaimsNothing DEF Roam, Step, Attempting
  <2> QED BY <1>5, <2>2, <2>3 DEF Roam
<1> QED BY <1>1, <1>2, <1>3, <1>4, <1>5

(* The service's steps that leave every worker where it is.                *)
LEMMA ServiceKeeps ==
    ASSUME SessionsInv,
           \/ \E c \in Config : Reload(c)
           \/ \E p \in Peer : Stop(p) \/ SweepOne(p)
           \/ Sweep \/ Quit \/ QuitDone
    PROVE  SessionsInv'
<1>a. TypeOK
    BY DEF SessionsInv
<1>b. UNCHANGED <<pc, conf, slots, attempting, limit, had, iface, told>>
    BY DEF Reload, Stop, SweepOne, Sweep, Quit, QuitDone, workerVars
<1>c. WorkersEquipped' /\ ClaimsApart' /\ SlotsBalanced'
    BY <1>b DEF SessionsInv, WorkersEquipped, ClaimsApart, SlotsBalanced
<1>d. table' = table => NothingOpen' /\ HeldIsOwn' /\ RoamAdmitted'
    BY <1>b DEF SessionsInv, NothingOpen, HeldIsOwn, RoamAdmitted
<1>1. CASE \E c \in Config : Reload(c)
  <2>1. TypeOK'
    BY <1>1, <1>a, <1>b DEF Reload, TypeOK, workerVars
  <2>2. WorkersListed' /\ WorkersPermitted'
    BY <1>1, <1>b DEF Reload, SessionsInv, WorkersListed, WorkersPermitted, workerVars
  <2> QED BY <1>1, <1>c, <1>d, <2>1, <2>2 DEF SessionsInv, Reload
<1>2. CASE \E p \in Peer : Stop(p)
  <2>1. TypeOK'
    BY <1>2, <1>a, <1>b DEF Stop, TypeOK
  <2>2. WorkersListed'
    BY <1>2, <1>a, <1>b DEF Stop, SessionsInv, WorkersListed, TypeOK
  <2>3. WorkersPermitted'
    BY <1>2 DEF Stop, SessionsInv, WorkersPermitted
  <2> QED BY <1>2, <1>c, <1>d, <2>1, <2>2, <2>3 DEF SessionsInv, Stop
<1>3. CASE Sweep
  <2>1. TypeOK'
    BY <1>3, <1>a, <1>b DEF Sweep, TypeOK, workerVars
  <2>2. WorkersListed' /\ WorkersPermitted'
    BY <1>3, <1>b DEF Sweep, SessionsInv, WorkersListed, WorkersPermitted, workerVars
  <2> QED BY <1>3, <1>c, <1>d, <2>1, <2>2 DEF SessionsInv, Sweep
<1>4. CASE \E p \in Peer : SweepOne(p)
  <2> PICK p \in Peer : SweepOne(p)
    BY <1>4
  <2>1. \A q \in Peer : table'[q] = IF q = p THEN None ELSE table[q]
    BY <1>a DEF SweepOne, TypeOK
  <2>2. TypeOK'
    BY <1>a, <1>b DEF SweepOne, TypeOK, workerVars
  <2>3. WorkersListed' /\ WorkersPermitted'
    BY <1>b DEF SweepOne, SessionsInv, WorkersListed, WorkersPermitted, workerVars
  <2>4. NothingOpen'
    BY <1>b, <2>1 DEF SessionsInv, NothingOpen
  <2>5. HeldIsOwn' /\ RoamAdmitted'
    BY <1>b, <2>1 DEF SessionsInv, HeldIsOwn, RoamAdmitted
  <2> QED BY <1>c, <2>2, <2>3, <2>4, <2>5 DEF SessionsInv
<1>5. CASE Quit \/ QuitDone
  <2>1. TypeOK'
    <3>1. CASE Quit
      <4>1. cancelled' \in [Peer -> BOOLEAN]
        BY <1>a, <3>1 DEF Quit, TypeOK
      <4>2. UNCHANGED <<limit, cfg, next, todo, owed, told, pc, conf, had, attempting,
                        slots, table, iface>> /\ loop' = "quit" /\ workers' = {}
        BY <3>1 DEF Quit
      <4> QED BY <1>a, <4>1, <4>2 DEF TypeOK
    <3>2. CASE QuitDone
      BY <1>a, <1>b, <3>2 DEF QuitDone, TypeOK, workerVars
    <3> QED BY <1>5, <3>1, <3>2
  <2>2. WorkersListed' /\ WorkersPermitted'
    BY <1>5, <1>b DEF Quit, QuitDone, SessionsInv, WorkersListed, WorkersPermitted
  <2> QED BY <1>5, <1>c, <1>d, <2>1, <2>2 DEF SessionsInv, Quit, QuitDone
<1> QED BY <1>1, <1>2, <1>3, <1>4, <1>5

(* A worker that has exited is forgotten, and its peer told.               *)
LEMMA StoppedKeeps ==
    ASSUME SessionsInv, NEW p \in Peer, Stopped(p)
    PROVE  SessionsInv'
<1> USE DEF Stopped
<1>a. TypeOK
    BY DEF SessionsInv
<1>b. \A q \in Peer : pc'[q] = IF q = p THEN "off" ELSE pc[q]
    BY <1>a DEF TypeOK
<1>c. \A q \in Peer : conf'[q] = IF q = p THEN None ELSE conf[q]
    BY <1>a DEF TypeOK
<1>1. TypeOK'
    BY <1>a DEF TypeOK
<1>2. SlotsBalanced'
  <2>1. {q \in Peer : pc'[q] \in Attempting} = {q \in Peer : pc[q] \in Attempting}
    BY <1>b DEF Attempting
  <2> QED BY <2>1 DEF SessionsInv, SlotsBalanced
<1>3. WorkersEquipped' /\ ClaimsApart'
    BY <1>b, <1>c DEF SessionsInv, WorkersEquipped, ClaimsApart
<1>4. WorkersListed'
  <2>1. todo' \subseteq workers
    BY <1>a DEF SessionsInv, WorkersListed, TypeOK
  <2>2. \A q \in workers : pc'[q] # "off"
    BY <1>a, <1>b DEF SessionsInv, WorkersListed, TypeOK
  <2>3. \A q \in Peer \ workers : pc'[q] = "off"
    BY <1>b DEF SessionsInv, WorkersListed
  <2> QED BY <2>1, <2>2, <2>3 DEF WorkersListed
<1>5. WorkersPermitted'
    BY DEF SessionsInv, WorkersPermitted
<1>6. NothingOpen'
  <2>1. told' \subseteq told \cup {p} /\ told \subseteq Peer
    BY <1>a DEF TypeOK
  <2> QED BY <1>b, <2>1 DEF SessionsInv, NothingOpen
<1>7. HeldIsOwn' /\ RoamAdmitted'
    BY <1>b DEF SessionsInv, HeldIsOwn, RoamAdmitted, Holding
<1> QED BY <1>1, <1>2, <1>3, <1>4, <1>5, <1>6, <1>7 DEF SessionsInv

(* The workers that are started had none.                                  *)
LEMMA StartNewKeeps ==
    ASSUME SessionsInv, StartNew
    PROVE  SessionsInv'
<1> DEFINE new == SessionPeers(next) \ workers
<1>a. TypeOK /\ loop = "stop" /\ todo = {}
    BY DEF SessionsInv, StartNew
<1>b. new \subseteq Peer
    BY DEF SessionPeers
<1>c. /\ loop' = "idle" /\ cfg' = next /\ workers' = workers \cup new /\ told' = told \ new
      /\ pc' = [p \in Peer |-> IF p \in new THEN "ready" ELSE pc[p]]
      /\ conf' = [p \in Peer |-> IF p \in new THEN next ELSE conf[p]]
      /\ UNCHANGED <<limit, next, todo, owed, cancelled, had, attempting, slots, table, iface>>
    BY DEF StartNew
<1>d. \A p \in new : pc[p] = "off"
    BY <1>a, <1>b DEF SessionsInv, WorkersListed
<1>1. TypeOK'
    BY <1>a, <1>b, <1>c DEF TypeOK
<1>2. SlotsBalanced'
  <2>1. {q \in Peer : pc'[q] \in Attempting} = {q \in Peer : pc[q] \in Attempting}
    BY <1>c, <1>d DEF Attempting
  <2> QED BY <1>c, <2>1 DEF SessionsInv, SlotsBalanced
<1>3. WorkersEquipped' /\ ClaimsApart'
    BY <1>a, <1>c DEF SessionsInv, WorkersEquipped, ClaimsApart, TypeOK
<1>4. WorkersListed'
    BY <1>a, <1>b, <1>c DEF SessionsInv, WorkersListed, TypeOK
<1>5. WorkersPermitted'
    BY <1>a, <1>c DEF SessionsInv, WorkersPermitted
<1>6. NothingOpen'
    BY <1>a, <1>c, <1>d DEF SessionsInv, NothingOpen, TypeOK
<1>7. HeldIsOwn' /\ RoamAdmitted'
    BY <1>c DEF SessionsInv, HeldIsOwn, RoamAdmitted, Holding
<1> QED BY <1>1, <1>2, <1>3, <1>4, <1>5, <1>6, <1>7 DEF SessionsInv

(* What happens without the node: a peer moves, time passes.               *)
LEMMA OutsideKeeps ==
    ASSUME SessionsInv, NEW p \in Peer, Move(p) \/ Age(p)
    PROVE  SessionsInv'
<1>a. TypeOK
    BY DEF SessionsInv
<1>b. UNCHANGED <<serviceVars, workerVars, attempting, slots>>
    BY DEF Move, Age
<1>c. /\ WorkersEquipped' /\ WorkersListed' /\ WorkersPermitted'
      /\ SlotsBalanced' /\ ClaimsApart'
    BY <1>b DEF SessionsInv, WorkersEquipped, WorkersListed, WorkersPermitted,
                SlotsBalanced, ClaimsApart, serviceVars, workerVars
<1>1. CASE Move(p)
  <2>1. iface[p] \in Interface
    BY <1>1, <1>a DEF Move, TypeOK
  <2>2. [iface[p] EXCEPT !.at = Elsewhere(@)] \in Interface
    BY <2>1, ElsewhereType DEF Interface
  <2>3. iface' \in [Peer -> Interface \cup {None}]
    BY <1>1, <1>a, <2>2 DEF Move, TypeOK
  <2>4. TypeOK'
    BY <1>1, <1>a, <1>b, <2>3 DEF Move, TypeOK, serviceVars, workerVars
  <2>5. NothingOpen' /\ HeldIsOwn' /\ RoamAdmitted'
    BY <1>1, <1>b DEF Move, SessionsInv, NothingOpen, HeldIsOwn,
                      RoamAdmitted, serviceVars, workerVars
  <2> QED BY <1>c, <2>4, <2>5 DEF SessionsInv
<1>2. CASE Age(p)
  <2>1. table[p] \in Session
    BY <1>2, <1>a DEF Age, TypeOK
  <2>2. PICK entry \in Session :
            /\ table' = [table EXCEPT ![p] = entry]
            /\ entry.phase = table[p].phase /\ (~table[p].roamed => ~entry.roamed)
    <3>1. \/ table' = [table EXCEPT ![p] = [table[p] EXCEPT !.age = "late"]]
          \/ table' = [table EXCEPT ![p] = [table[p] EXCEPT !.roamed = FALSE]]
      BY <1>2 DEF Age
    <3>2. CASE table' = [table EXCEPT ![p] = [table[p] EXCEPT !.age = "late"]]
      <4>1. /\ [table[p] EXCEPT !.age = "late"] \in Session
            /\ [table[p] EXCEPT !.age = "late"].phase = table[p].phase
            /\ [table[p] EXCEPT !.age = "late"].roamed = table[p].roamed
        BY <2>1 DEF Session
      <4> QED BY <3>2, <4>1
    <3>3. CASE table' = [table EXCEPT ![p] = [table[p] EXCEPT !.roamed = FALSE]]
      <4>1. /\ [table[p] EXCEPT !.roamed = FALSE] \in Session
            /\ [table[p] EXCEPT !.roamed = FALSE].phase = table[p].phase
            /\ [table[p] EXCEPT !.roamed = FALSE].roamed = FALSE
        BY <2>1 DEF Session
      <4> QED BY <3>3, <4>1
    <3> QED BY <3>1, <3>2, <3>3
  <2>3. /\ \A q \in Peer : table'[q] = IF q = p THEN entry ELSE table[q]
        /\ entry # None /\ table[p] # None
    BY <1>2, <1>a, <2>2, NoneAssumption DEF Age, TypeOK
  <2>4. TypeOK'
    BY <1>2, <1>a, <1>b, <2>2 DEF Age, TypeOK, serviceVars, workerVars
  <2>5. NothingOpen' /\ HeldIsOwn' /\ RoamAdmitted'
    BY <1>b, <2>2, <2>3 DEF SessionsInv, NothingOpen, HeldIsOwn, RoamAdmitted,
                            serviceVars, workerVars
  <2> QED BY <1>c, <2>4, <2>5 DEF SessionsInv
<1> QED BY <1>1, <1>2

(* Every step keeps the invariant.                                         *)
LEMMA NextKeeps ==
    ASSUME SessionsInv, [Next]_vars
    PROVE  SessionsInv'
<1>1. CASE Service
    BY <1>1, ServiceKeeps, StoppedKeeps, StartNewKeeps DEF Service
<1>2. CASE Sweep \/ Quit \/ \E c \in Config : Reload(c)
    BY <1>2, ServiceKeeps
<1>3. CASE \E p \in Peer : Worker(p) \/ HoldDropped(p)
    BY <1>3, PauseKeeps, SetupKeeps, ConnectKeeps, HoldKeeps DEF Worker
<1>4. CASE \E p \in Peer : Move(p) \/ Age(p)
    BY <1>4, OutsideKeeps
<1>5. CASE UNCHANGED vars
    BY <1>5, SMTT(30) DEF vars, serviceVars, workerVars, SessionsInv, TypeOK, WorkersEquipped,
                WorkersListed, WorkersPermitted, NothingOpen, SlotsBalanced, ClaimsApart,
                HeldIsOwn, RoamAdmitted
<1> QED BY <1>1, <1>2, <1>3, <1>4, <1>5 DEF Next

(* The invariant holds in every state of every behaviour.                  *)
LEMMA Invariant == Spec => []SessionsInv
<1> QED BY InitEstablishes, NextKeeps, PTL DEF Spec

(* The state has its type: in particular the table, the claims and the     *)
(* interfaces have entries only of the kinds the code stores.              *)
THEOREM TypeCorrect == Spec => []TypeOK
<1>1. SessionsInv => TypeOK
    BY DEF SessionsInv
<1> QED BY <1>1, Invariant, PTL

(* supervisor.attempting counts exactly the attempts under way, however    *)
(* they end, and never exceeds the limit.                                  *)
THEOREM SlotsBalance == Spec => []SlotsBalanced
<1>1. SessionsInv => SlotsBalanced
    BY DEF SessionsInv
<1> QED BY <1>1, Invariant, PTL

(* supervisor.Claim never gives two peers one interface or one port.       *)
THEOREM ClaimsStayApart == Spec => []ClaimsApart
<1>1. SessionsInv => ClaimsApart
    BY DEF SessionsInv
<1> QED BY <1>1, Invariant, PTL

(* After a reload a peer it revoked has no worker and no open session, and *)
(* no peer is told of its revocation before (reconcile, stop).             *)
THEOREM RevokedCloses == Spec => []RevokedIsClosed
<1>1. SessionsInv => RevokedIsClosed
  <2> SUFFICES ASSUME SessionsInv PROVE RevokedIsClosed
    OBVIOUS
  <2>1. ASSUME NEW p \in Peer, loop = "idle", p \notin SessionPeers(cfg)
        PROVE  pc[p] = "off" /\ p \notin workers
    BY <2>1 DEF SessionsInv, WorkersListed, WorkersPermitted
  <2>2. ASSUME NEW p \in Peer, p \in told \/ pc[p] = "off", table[p] # None
        PROVE  table[p].phase = "failed"
    BY <2>2 DEF SessionsInv, NothingOpen
  <2> QED BY <2>1, <2>2 DEF RevokedIsClosed
<1> QED BY <1>1, Invariant, PTL

(* A step of another kind than Roam leaves the endpoint on record of a     *)
(* session that is held, as long as the session is.                        *)
LEMMA EndpointKept ==
    ASSUME SessionsInv, Next, NEW p \in Peer, pc[p] \in Holding, ~Roam(p),
           table[p] # None, table'[p] # None
    PROVE  table'[p].endpoint = table[p].endpoint
<1>a. table \in [Peer -> Session \cup {None}] /\ table[p] \in Session
    BY DEF SessionsInv, TypeOK
<1>1. CASE UNCHANGED table
    BY <1>1
<1>2. CASE \E q \in Peer : Age(q)
  <2> PICK q \in Peer : Age(q)
    BY <1>2
  <2>1. CASE q # p
    BY <1>a, <2>1 DEF Age
  <2>2. CASE q = p
    <3>1. \/ table'[p] = [table[p] EXCEPT !.age = "late"]
          \/ table'[p] = [table[p] EXCEPT !.roamed = FALSE]
      BY <1>a, <2>2 DEF Age
    <3> QED BY <1>a, <3>1 DEF Session
  <2> QED BY <2>1, <2>2
<1>3. CASE \E q \in Peer : SweepOne(q)
    BY <1>3, <1>a DEF SweepOne
<1>4. CASE \E q \in Peer : Worker(q)
  <2> PICK q \in Peer : Worker(q)
    BY <1>4
  <2>1. CASE q = p
    <3>1. pc[p] \in {"hold", "roam"}
      BY DEF Holding
    <3>2. HoldCancelled(p) \/ FollowRoam(p)
      BY <2>1, <3>1 DEF Worker, Exit, Retry, BeginAttempt, ClaimRefused, Build, Begin,
                        ConnectFails, Abandon, Configure, Unconfirmed, VerifyFails,
                        Establish, EnterHold, Release
    <3> QED BY <3>2 DEF HoldCancelled, FollowRoam
  <2>2. CASE q # p
    <3>1. \A e : table' = [table EXCEPT ![q] = e] => table'[p] = table[p]
      BY <1>a, <2>2
    <3>2. UNCHANGED table \/ \E e : table' = [table EXCEPT ![q] = e]
      BY DEF Worker, Exit, Retry, BeginAttempt, ClaimRefused, Build, Begin,
             ConnectFails, Abandon, Configure, Unconfirmed, VerifyFails, Fail,
             Establish, EnterHold, HoldCancelled, Release, FollowRoam, Roam
    <3> QED BY <3>1, <3>2
  <2> QED BY <2>1, <2>2
<1>5. CASE \/ StartNew \/ QuitDone \/ Sweep \/ Quit \/ \E c \in Config : Reload(c)
           \/ \E q \in Peer : Stop(q) \/ Stopped(q) \/ HoldDropped(q) \/ Move(q)
           \/ UNCHANGED vars
    BY <1>5, <1>1 DEF StartNew, QuitDone, Sweep, Quit, Reload, Stop, Stopped, HoldDropped, Move, vars
<1> QED BY <1>2, <1>3, <1>4, <1>5 DEF Next, Service

(* The record of a held session follows the peer's address at most once    *)
(* within minRoamInterval, whatever happens between the decision and the   *)
(* record (applyEndpointChange, applyRoam).                                *)
THEOREM RoamsStayApart == Spec => RoamsApart
<1>1. ASSUME SessionsInv, [Next]_vars, NEW p \in Peer,
             pc[p] \in Holding, table[p] # None, table'[p] # None,
             table'[p].endpoint # table[p].endpoint
      PROVE  ~table[p].roamed
  <2>1. Next
    BY <1>1 DEF vars
  <2>2. Roam(p)
    BY <1>1, <2>1, EndpointKept
  <2> QED BY <1>1, <2>2 DEF Roam, SessionsInv, RoamAdmitted
<1>2. SessionsInv /\ [Next]_vars =>
        [\A p \in Peer :
            (/\ pc[p] \in Holding /\ table[p] # None /\ table'[p] # None
             /\ table'[p].endpoint # table[p].endpoint) => ~table[p].roamed]_vars
    BY <1>1
<1> QED BY <1>2, Invariant, PTL DEF Spec, RoamsApart

(* Nothing but a sweep takes a session that is held out of the table.      *)
OnlySweepUnlists ==
    [][\A p \in Peer : (pc[p] \in Holding /\ table[p] # None /\ table'[p] = None) =>
            loop = "sweep" /\ p \in todo]_vars

(* A held session keeps its entry through reloads, other peers' attempts   *)
(* and roams, and loses it only to a sweep whose list, taken before it     *)
(* came up, has its peer (Begin, Close, ExpireStaleSessions).              *)
THEOREM HeldIsLostToSweepsOnly == Spec => OnlySweepUnlists
<1>1. ASSUME SessionsInv, Next, NEW p \in Peer,
             pc[p] \in Holding, table[p] # None, table'[p] = None
      PROVE  loop = "sweep" /\ p \in todo
  <2>a. table \in [Peer -> Session \cup {None}] /\ table[p] \in Session
    BY <1>1 DEF SessionsInv, TypeOK
  <2>b. RecordMove(table[p]) # None
    BY <2>a, SessionType, NoneAssumption
  <2>1. ASSUME NEW q \in Peer, SweepOne(q) PROVE loop = "sweep" /\ p \in todo
    BY <1>1, <2>a, <2>1 DEF SweepOne
  <2>2. ASSUME NEW q \in Peer, Age(q) PROVE FALSE
    <3>1. CASE q # p
      BY <1>1, <2>2, <2>a, <3>1 DEF Age
    <3>2. CASE q = p
      <4>1. \/ table'[p] = [table[p] EXCEPT !.age = "late"]
            \/ table'[p] = [table[p] EXCEPT !.roamed = FALSE]
        BY <2>2, <2>a, <3>2 DEF Age
      <4>2. table'[p] \in Session
        BY <2>a, <4>1 DEF Session
      <4> QED BY <1>1, <4>2, NoneAssumption
    <3> QED BY <3>1, <3>2
  <2>3. ASSUME NEW q \in Peer, Worker(q) PROVE FALSE
    <3>1. CASE q = p
      <4>1. pc[p] \in {"hold", "roam"}
        BY <1>1 DEF Holding
      <4>2. HoldCancelled(p) \/ FollowRoam(p) \/ Roam(p)
        BY <2>3, <3>1, <4>1 DEF Worker, Exit, Retry, BeginAttempt, ClaimRefused, Build, Begin,
                        ConnectFails, Abandon, Configure, Unconfirmed, VerifyFails,
                        Establish, EnterHold, Release
      <4> QED BY <1>1, <2>a, <2>b, <4>2 DEF HoldCancelled, FollowRoam, Roam
    <3>2. CASE q # p
      <4>1. \A e : table' = [table EXCEPT ![q] = e] => table'[p] = table[p]
        BY <2>a, <3>2
      <4>2. UNCHANGED table \/ \E e : table' = [table EXCEPT ![q] = e]
        BY <2>3 DEF Worker, Exit, Retry, BeginAttempt, ClaimRefused, Build, Begin,
             ConnectFails, Abandon, Configure, Unconfirmed, VerifyFails, Fail,
             Establish, EnterHold, HoldCancelled, Release, FollowRoam, Roam
      <4> QED BY <1>1, <4>1, <4>2
    <3> QED BY <3>1, <3>2
  <2>4. CASE \/ StartNew \/ QuitDone \/ Sweep \/ Quit \/ \E c \in Config : Reload(c)
             \/ \E q \in Peer : Stop(q) \/ Stopped(q) \/ HoldDropped(q) \/ Move(q)
             \/ UNCHANGED vars
    BY <1>1, <2>4 DEF StartNew, QuitDone, Sweep, Quit, Reload, Stop, Stopped, HoldDropped, Move,
                      vars
  <2> QED BY <1>1, <2>1, <2>2, <2>3, <2>4 DEF Next, Service
<1>2. SessionsInv /\ [Next]_vars =>
        [\A p \in Peer : (pc[p] \in Holding /\ table[p] # None /\ table'[p] = None) =>
            loop = "sweep" /\ p \in todo]_vars
    BY <1>1
<1> QED BY <1>2, Invariant, PTL DEF Spec, OnlySweepUnlists
-----------------------------------------------------------------------------
(* The attempts that were authorized: those past Begin.                    *)
Past == {"open", "applied", "enter", "hold", "roam", "release"}

(* An attempt past Begin belongs to a peer whose own grant, in the         *)
(* configuration its worker was started with, permits sessions and is not  *)
(* revoked; between reloads the configuration in force permits them too.   *)
SessionsGranted ==
    \A p \in Peer : pc[p] \in Past =>
        /\ Check(conf[p], p, "session")
        /\ loop = "idle" => p \in SessionPeers(cfg)

Entries == {p \in Peer : table[p] # None}

(* The table never has more entries than maxSessions, failed ones included.*)
EntriesBounded == Cardinality(Entries) <= limit

(* An interface listens on the port its peer claimed.                      *)
OnItsSlot ==
    \A p \in Peer : iface[p] # None => slots[p] # None /\ iface[p].port = slots[p].port

(* No two interfaces on the host listen on one port, also those that a     *)
(* failed removal left behind and those of earlier configurations.         *)
InterfacesApart ==
    \A p, q \in Peer : (p # q /\ iface[p] # None /\ iface[q] # None) =>
        iface[p].port # iface[q].port \/ iface[p].port = 0

(* A worker is started only for a peer without one: a peer's goroutine has *)
(* ended, and was waited for, before its next one starts, and it starts    *)
(* with nothing of the other's (start, stop).                              *)
OneWorkerEach ==
    [][\A p \in workers' \ workers :
          pc[p] = "off" /\ (table[p] # None => table[p].phase = "failed")]_vars

(* What a step may do to a peer.                                           *)
Tame(q) ==
    /\ pc'[q] \in Past => conf'[q] = conf[q] /\ (pc[q] \in Past \/ Begin(q))
    /\ slots[q] # None => slots'[q] = slots[q]
    /\ iface'[q] # None =>
          \/ iface[q] # None /\ iface'[q].port = iface[q].port
          \/ Configure(q)
    /\ table'[q] # None => table[q] # None \/ Begin(q)

(* The steps of a worker, for its own peer and for the others.             *)
LEMMA WorkerIsTame ==
    ASSUME SessionsInv, NEW p \in Peer, NEW q \in Peer, Worker(p) \/ HoldDropped(p)
    PROVE  Tame(q)
<1>a. /\ pc \in [Peer -> Step] /\ slots \in [Peer -> Slot \cup {None}]
      /\ table \in [Peer -> Session \cup {None}] /\ iface \in [Peer -> Interface \cup {None}]
    BY DEF SessionsInv, TypeOK, Step
<1>b. conf' = conf
    BY DEF Worker, Exit, Retry, BeginAttempt, ClaimRefused, Build, Begin, ConnectFails, Abandon,
           Configure, Unconfirmed, VerifyFails, Establish, EnterHold, HoldCancelled, HoldDropped,
           Release, FollowRoam, Roam, EndAttempt, WorkerOnly
<1>1. CASE Exit(p) \/ Retry(p) \/ BeginAttempt(p) \/ ClaimRefused(p) \/ ConnectFails(p)
  <2>1. UNCHANGED <<slots, table, iface>>
        /\ \E step \in Step \ Past : pc' = [pc EXCEPT ![p] = step]
    BY <1>1 DEF Exit, Retry, BeginAttempt, ClaimRefused, ConnectFails, EndAttempt, Goto, Step,
                Past, Attempting
  <2> QED BY <1>a, <1>b, <2>1 DEF Tame
<1>2. CASE Build(p)
  <2>1. UNCHANGED <<table, iface>>
        /\ \E step \in Step \ Past : pc' = [pc EXCEPT ![p] = step]
    BY <1>2 DEF Build, EndAttempt, Goto, Step, Past, Attempting
  <2>2. slots[q] # None => slots'[q] = slots[q]
    BY <1>2, <1>a DEF Build
  <2> QED BY <1>a, <1>b, <2>1, <2>2 DEF Tame
<1>3. CASE Begin(p)
  <2>1. UNCHANGED <<slots, iface>> /\ pc' = [pc EXCEPT ![p] = "open"]
        /\ table' = [table EXCEPT ![p] = NewSession]
    BY <1>3 DEF Begin, Goto
  <2>2. q # p => pc'[q] = pc[q] /\ table'[q] = table[q]
    BY <1>a, <2>1
  <2> QED BY <1>3, <1>b, <2>1, <2>2 DEF Tame
<1>4. CASE Configure(p)
  <2>1. UNCHANGED <<slots, table>> /\ pc' = [pc EXCEPT ![p] = "applied"] /\ pc[p] = "open"
        /\ \A x \in Peer \ {p} : iface'[x] = iface[x]
    BY <1>4, <1>a DEF Configure, Goto
  <2>2. pc'[q] \in Past => pc[q] \in Past
    BY <1>a, <2>1 DEF Past
  <2> QED BY <1>4, <1>b, <2>1, <2>2 DEF Tame
<1>5. CASE Abandon(p) \/ Unconfirmed(p) \/ VerifyFails(p) \/ Release(p)
  <2>1. pc' = [pc EXCEPT ![p] = "backoff"] /\ slots' = slots
    BY <1>5 DEF Abandon, Unconfirmed, VerifyFails, Release, EndAttempt, Goto
  <2>2. iface' = iface \/ iface' = [iface EXCEPT ![p] = None]
    BY <1>5 DEF Abandon, Unconfirmed, VerifyFails, Release
  <2>3. \A x \in Peer : table'[x] # None => table[x] # None
    BY <1>5, <1>a DEF Abandon, Unconfirmed, VerifyFails, Release, Fail
  <2>4. iface'[q] # None => iface'[q] = iface[q]
    BY <1>a, <2>2
  <2>5. pc'[q] \in Past => pc[q] \in Past
    BY <1>a, <2>1 DEF Past
  <2> QED BY <1>b, <2>1, <2>3, <2>4, <2>5 DEF Tame
<1>6. CASE \/ Establish(p) \/ EnterHold(p) \/ HoldCancelled(p) \/ HoldDropped(p)
           \/ FollowRoam(p) \/ Roam(p)
  <2>1. slots' = slots /\ pc[p] \in Past /\ \E step \in Step : pc' = [pc EXCEPT ![p] = step]
    BY <1>6 DEF Establish, EnterHold, HoldCancelled, HoldDropped, FollowRoam, Roam, Goto, Past,
                Step, Attempting
  <2>2. pc'[q] \in Past => pc[q] \in Past
    BY <1>a, <2>1
  <2>3. \A x \in Peer : table'[x] # None => table[x] # None
    BY <1>6, <1>a DEF Establish, EnterHold, HoldCancelled, HoldDropped, FollowRoam, Roam
  <2>4. iface'[q] # None => iface[q] # None /\ iface'[q].port = iface[q].port
    <3>1. CASE iface' = iface
      BY <3>1
    <3>2. CASE iface' # iface
      <4>1. PICK a \in Address : iface[p] # None
            /\ iface' = [iface EXCEPT ![p] = [@ EXCEPT !.keyed = FALSE, !.at = a]]
        BY <1>6, <3>2 DEF Establish, EnterHold, HoldCancelled, HoldDropped, FollowRoam, Roam
      <4>2. iface[p] \in Interface
        BY <1>a, <4>1
      <4>3. [iface[p] EXCEPT !.keyed = FALSE, !.at = a].port = iface[p].port
        BY <4>2 DEF Interface
      <4>4. iface'[q] = IF q = p THEN [iface[p] EXCEPT !.keyed = FALSE, !.at = a]
                        ELSE iface[q]
        BY <1>a, <4>1
      <4> QED BY <4>1, <4>3, <4>4
    <3> QED BY <3>1, <3>2
  <2> QED BY <1>b, <2>1, <2>2, <2>3, <2>4 DEF Tame
<1> QED BY <1>1, <1>2, <1>3, <1>4, <1>5, <1>6 DEF Worker

(* Every step is tame.                                                     *)
LEMMA StepIsTame ==
    ASSUME SessionsInv, [Next]_vars, NEW q \in Peer
    PROVE  Tame(q)
<1>a. /\ pc \in [Peer -> Step] /\ table \in [Peer -> Session \cup {None}]
      /\ iface \in [Peer -> Interface \cup {None}] /\ conf \in [Peer -> Config \cup {None}]
    BY DEF SessionsInv, TypeOK, Step
<1>1. ASSUME NEW p \in Peer, Worker(p) \/ HoldDropped(p) PROVE Tame(q)
    BY <1>1, WorkerIsTame
<1>2. ASSUME NEW p \in Peer, Stop(p) PROVE Tame(q)
    BY <1>2 DEF Stop, Tame
<1>3. ASSUME NEW p \in Peer, Stopped(p) PROVE Tame(q)
  <2>1. UNCHANGED <<slots, table, iface>> /\ pc' = [pc EXCEPT ![p] = "off"]
        /\ conf' = [conf EXCEPT ![p] = None]
    BY <1>3 DEF Stopped
  <2>2. pc'[q] \in Past => conf'[q] = conf[q] /\ pc[q] \in Past
    BY <1>a, <2>1 DEF Past
  <2> QED BY <2>1, <2>2 DEF Tame
<1>4. ASSUME NEW p \in Peer, SweepOne(p) PROVE Tame(q)
    BY <1>4, <1>a DEF SweepOne, workerVars, Tame
<1>5. CASE StartNew
  <2>1. UNCHANGED <<slots, table, iface>>
    BY <1>5 DEF StartNew
  <2>2. pc'[q] \in Past => conf'[q] = conf[q] /\ pc[q] \in Past
    BY <1>5, <1>a DEF StartNew, Past
  <2> QED BY <2>1, <2>2 DEF Tame
<1>6. CASE QuitDone \/ Sweep \/ Quit \/ (\E c \in Config : Reload(c)) \/ UNCHANGED vars
    BY <1>6 DEF QuitDone, Sweep, Quit, Reload, vars, workerVars, Tame
<1>7. ASSUME NEW p \in Peer, Move(p) PROVE Tame(q)
  <2> DEFINE moved == [iface[p] EXCEPT !.at = Elsewhere(iface[p].at)]
  <2>1. UNCHANGED <<pc, conf, slots, table>> /\ iface[p] # None
        /\ iface' = [iface EXCEPT ![p].at = Elsewhere(@)]
    BY <1>7 DEF Move, workerVars
  <2>2. moved.port = iface[p].port
    BY <1>a, <2>1 DEF Interface
  <2>3. iface'[q] = IF q = p THEN moved ELSE iface[q]
    BY <1>a, <2>1
  <2> HIDE DEF moved
  <2>4. iface'[q] # None => iface[q] # None /\ iface'[q].port = iface[q].port
    BY <2>1, <2>2, <2>3
  <2> QED BY <2>1, <2>4 DEF Tame
<1>8. ASSUME NEW p \in Peer, Age(p) PROVE Tame(q)
  <2>1. UNCHANGED <<pc, conf, slots, iface>> /\ table[p] # None
        /\ \A x \in Peer \ {p} : table'[x] = table[x]
    BY <1>8, <1>a DEF Age, workerVars
  <2> QED BY <2>1 DEF Tame
<1> QED BY <1>1, <1>2, <1>3, <1>4, <1>5, <1>6, <1>7, <1>8 DEF Next, Service

(* The limits are set once, and only StartNew starts a worker.             *)
LEMMA OnlyStartAdds ==
    ASSUME [Next]_vars
    PROVE  limit' = limit /\ (StartNew \/ workers' \subseteq workers)
<1>1. CASE StartNew
    BY <1>1 DEF StartNew
<1>2. CASE QuitDone \/ Sweep \/ Quit \/ (\E c \in Config : Reload(c)) \/ UNCHANGED vars
    BY <1>2 DEF QuitDone, Sweep, Quit, Reload, vars, serviceVars
<1>3. ASSUME NEW p \in Peer, Stop(p) \/ Stopped(p) \/ SweepOne(p)
      PROVE  limit' = limit /\ workers' \subseteq workers
    BY <1>3 DEF Stop, Stopped, SweepOne
<1>4. ASSUME NEW p \in Peer, Move(p) \/ Age(p)
      PROVE  limit' = limit /\ workers' \subseteq workers
    BY <1>4 DEF Move, Age, serviceVars
<1>5. ASSUME NEW p \in Peer, Worker(p) \/ HoldDropped(p)
      PROVE  limit' = limit /\ workers' \subseteq workers
  <2>1. UNCHANGED serviceVars
    BY <1>5 DEF Worker, Exit, Retry, BeginAttempt, ClaimRefused, Build, Begin, ConnectFails,
                Abandon, Configure, Unconfirmed, VerifyFails, Establish, EnterHold, HoldCancelled,
                HoldDropped, Release, FollowRoam, Roam, EndAttempt, WorkerOnly
  <2> QED BY <2>1 DEF serviceVars
<1> QED BY <1>1, <1>2, <1>3, <1>4, <1>5 DEF Next, Service

(* What the properties of this part need of each other.                    *)
HostInv ==
    /\ EntriesBounded /\ OnItsSlot
    /\ \A p \in Peer : pc[p] \in Past => Check(conf[p], p, "session")

LEMMA HostInitially == Init => HostInv
<1> SUFFICES ASSUME Init PROVE HostInv
    OBVIOUS
<1>1. Entries = {} /\ limit \in Nat \ {0}
    BY SessionsAssumption DEF Init, Entries
<1>2. EntriesBounded
    BY <1>1, FS_EmptySet DEF EntriesBounded
<1>3. OnItsSlot /\ \A p \in Peer : pc[p] \notin Past
    BY DEF Init, OnItsSlot, Past
<1> QED BY <1>2, <1>3 DEF HostInv

LEMMA HostKeeps ==
    ASSUME SessionsInv, HostInv, [Next]_vars
    PROVE  HostInv'
<1>a. SessionsInv' /\ TypeOK /\ TypeOK'
    BY NextKeeps DEF SessionsInv
<1>b. limit' = limit /\ limit \in Nat
  <2>1. limit \in Nat
    BY <1>a, SessionsAssumption DEF TypeOK
  <2>2. limit' = limit
    BY OnlyStartAdds
  <2> QED BY <2>1, <2>2
<1>1. \A q \in Peer : Tame(q)
    BY StepIsTame
<1>2. ASSUME NEW p \in Peer, pc'[p] \in Past PROVE Check(conf[p], p, "session")'
  <2>1. conf'[p] = conf[p] /\ (pc[p] \in Past \/ Begin(p))
    BY <1>1, <1>2 DEF Tame
  <2>2. Check(conf[p], p, "session")
    BY <2>1 DEF HostInv, Begin
  <2> QED BY <2>1, <2>2 DEF Check
<1>3. OnItsSlot'
  <2> SUFFICES ASSUME NEW p \in Peer, iface'[p] # None
               PROVE  slots'[p] # None /\ iface'[p].port = slots'[p].port
    BY DEF OnItsSlot
  <2>1. CASE iface[p] # None /\ iface'[p].port = iface[p].port
    <3>1. slots[p] # None /\ iface[p].port = slots[p].port
      BY <2>1 DEF HostInv, OnItsSlot
    <3> QED BY <1>1, <2>1, <3>1 DEF Tame
  <2>2. CASE Configure(p)
    <3>1. slots[p] # None
      BY <2>2 DEF SessionsInv, WorkersEquipped, Configure
    <3>2. slots' = slots /\ iface'[p].port = slots[p].port
      BY <1>a, <2>2 DEF Configure, TypeOK
    <3> QED BY <3>1, <3>2
  <2> QED BY <1>1, <2>1, <2>2 DEF Tame
<1>4. EntriesBounded'
  <2>a. IsFiniteSet(Entries) /\ Cardinality(Entries) \in Nat
    BY SessionsAssumption, FS_Subset, FS_CardinalityType DEF Entries
  <2>b. IsFiniteSet(Entries') /\ Cardinality(Entries') \in Nat
    BY SessionsAssumption, FS_Subset, FS_CardinalityType DEF Entries
  <2>1. CASE \E p \in Peer : Begin(p)
    <3>1. PICK p \in Peer : Begin(p)
      BY <2>1
    <3>2. Cardinality(Entries) < limit
      BY <3>1 DEF Begin, CanBegin, Entries
    <3>3. Entries' \subseteq Entries \cup {p}
      BY <1>a, <3>1 DEF Begin, Entries, TypeOK
    <3>4. /\ IsFiniteSet(Entries \cup {p})
          /\ Cardinality(Entries \cup {p}) \in {Cardinality(Entries), Cardinality(Entries) + 1}
      BY <2>a, FS_AddElement
    <3>5. Cardinality(Entries') <= Cardinality(Entries \cup {p})
      BY <3>3, <3>4, FS_Subset
    <3>6. Cardinality(Entries') <= limit
      BY <1>b, <2>a, <2>b, <3>2, <3>4, <3>5
    <3> QED BY <1>b, <3>6 DEF EntriesBounded
  <2>2. CASE ~\E p \in Peer : Begin(p)
    <3>1. Entries' \subseteq Entries
      BY <1>1, <2>2 DEF Entries, Tame
    <3>2. Cardinality(Entries') <= Cardinality(Entries)
      BY <2>a, <3>1, FS_Subset
    <3>3. Cardinality(Entries) <= limit
      BY DEF HostInv, EntriesBounded
    <3>4. Cardinality(Entries') <= limit
      BY <1>b, <2>a, <2>b, <3>2, <3>3
    <3> QED BY <1>b, <3>4 DEF EntriesBounded
  <2> QED BY <2>1, <2>2
<1> QED BY <1>2, <1>3, <1>4 DEF HostInv

LEMMA HostInvariant == Spec => [](SessionsInv /\ HostInv)
<1>1. SessionsInv /\ HostInv /\ [Next]_vars => HostInv'
    BY HostKeeps
<1> QED BY <1>1, HostInitially, Invariant, PTL DEF Spec

(* Nothing is opened, configured or held for a peer that the configuration *)
(* of its worker does not permit, however often the configuration changes  *)
(* while its attempts run, and between reloads the one in force permits it *)
(* as well (Driver.Connect, reconcile).                                    *)
THEOREM SessionsAreGranted == Spec => []SessionsGranted
<1>1. SessionsInv /\ HostInv => SessionsGranted
  <2> SUFFICES ASSUME SessionsInv, HostInv, NEW p \in Peer, pc[p] \in Past
               PROVE  Check(conf[p], p, "session") /\ (loop = "idle" => p \in SessionPeers(cfg))
    BY DEF SessionsGranted
  <2>1. loop = "idle" => p \in workers
    BY DEF SessionsInv, WorkersListed, Past
  <2> QED BY <2>1 DEF HostInv, SessionsInv, WorkersPermitted
<1> QED BY <1>1, HostInvariant, PTL

(* SessionManager keeps to maxSessions, whatever is begun, swept, failed   *)
(* or released concurrently (Begin, Close, ExpireStaleSessions).           *)
THEOREM TableIsBounded == Spec => []EntriesBounded
<1>1. HostInv => EntriesBounded
    BY DEF HostInv
<1> QED BY <1>1, HostInvariant, PTL

(* The interfaces on the host listen on different ports: a slot outlives   *)
(* the interface it was claimed for, also when the interface would not go  *)
(* away and the base port has changed since (Claim, Release).              *)
THEOREM InterfacesStayApart == Spec => []InterfacesApart
<1>1. SessionsInv /\ HostInv => InterfacesApart
  <2> SUFFICES ASSUME SessionsInv, HostInv, NEW p \in Peer, NEW q \in Peer, p # q,
                      iface[p] # None, iface[q] # None
               PROVE  iface[p].port # iface[q].port \/ iface[p].port = 0
    BY DEF InterfacesApart
  <2>1. /\ slots[p] # None /\ iface[p].port = slots[p].port
        /\ slots[q] # None /\ iface[q].port = slots[q].port
    BY DEF HostInv, OnItsSlot
  <2>2. slots[p].port # slots[q].port \/ slots[p].port = 0
    BY <2>1 DEF SessionsInv, ClaimsApart
  <2> QED BY <2>1, <2>2
<1> QED BY <1>1, HostInvariant, PTL

(* A peer never has two workers at a time, and a worker that starts finds  *)
(* no session of its predecessor's that is still open (stop waits, the     *)
(* attempt closes or fails its session before it returns).                 *)
THEOREM OneWorkerAtATime == Spec => OneWorkerEach
<1> DEFINE Starts == \A p \in workers' \ workers :
                        pc[p] = "off" /\ (table[p] # None => table[p].phase = "failed")
<1>1. ASSUME SessionsInv, Next, NEW p \in workers' \ workers
      PROVE  pc[p] = "off" /\ (table[p] # None => table[p].phase = "failed")
  <2>1. StartNew
    BY <1>1, OnlyStartAdds
  <2>2. p \in Peer \ workers /\ loop = "stop"
    BY <2>1 DEF StartNew, SessionPeers
  <2>3. pc[p] = "off"
    BY <1>1, <2>2 DEF SessionsInv, WorkersListed
  <2> QED BY <1>1, <2>2, <2>3 DEF SessionsInv, NothingOpen
<1>2. SessionsInv /\ [Next]_vars => [Starts]_vars
    BY <1>1
<1> HIDE DEF Starts
<1>3. Spec => [][Starts]_vars
    BY <1>2, Invariant, PTL DEF Spec
<1> QED BY <1>3 DEF Starts, OneWorkerEach
-----------------------------------------------------------------------------
(* For a peer that has a grant, the service's decision and the driver's    *)
(* are the same but for a grant that routes nothing, whatever groups name  *)
(* the peer, and a revoked grant outweighs them all (Decide, Check).       *)
THEOREM GrantDecides ==
    ASSUME NEW c, IsConfig(c), NEW p \in Peer, c.grants[p] # None
    PROVE  /\ p \in SessionPeers(c) <=> Check(c, p, "session") /\ c.grants[p].ips # {}
           /\ c.grants[p].revoked => p \notin SessionPeers(c)
<1> DEFINE g == c.grants[p]
           d == DecideFromRule(g, "session", "allowed_by_rule")
<1>1. g \in Grant /\ g.revoked \in BOOLEAN
    BY DEF IsConfig, Grant
<1>2. Decide(c, p, "session") = IF g.revoked THEN Deny("revoked") ELSE d
    BY DEF Decide, DecideFromGrant
<1>3. /\ \A r : Deny(r).outcome = "deny"
      /\ \A r, ips : Allow(r, ips).outcome = "allow"
    BY DEF Deny, Allow
<1>4. d.outcome = "allow" <=> "session" \in g.actions /\ g.ips # {}
  <2>1. CASE "session" \notin g.actions
    BY <1>3, <2>1 DEF DecideFromRule
  <2>2. CASE "session" \in g.actions /\ g.ips = {}
    BY <1>3, <2>2 DEF DecideFromRule
  <2>3. CASE "session" \in g.actions /\ g.ips # {}
    BY <1>3, <2>3 DEF DecideFromRule
  <2> QED BY <2>1, <2>2, <2>3
<1>5. p \in SessionPeers(c) <=> Decide(c, p, "session").outcome = "allow"
    BY DEF SessionPeers, Allowed
<1>6. Check(c, p, "session") <=> ~g.revoked /\ "session" \in g.actions
    BY DEF Check
<1> HIDE DEF d, g
<1>7. CASE g.revoked
  <2>1. Decide(c, p, "session").outcome = "deny"
    BY <1>2, <1>3, <1>7
  <2> QED BY <1>5, <1>6, <1>7, <2>1 DEF g
<1>8. CASE ~g.revoked
  <2>1. Decide(c, p, "session").outcome = d.outcome
    BY <1>2, <1>8
  <2> QED BY <1>4, <1>5, <1>6, <1>8, <2>1 DEF g
<1> QED BY <1>1, <1>7, <1>8
=============================================================================
