------------------------------ MODULE Sessions ------------------------------
(***************************************************************************)
(* One node's sessions: the service that starts and stops a worker per     *)
(* authorized peer and sweeps stale sessions (cmd/nostmesh/service.go),    *)
(* the supervisor with the attempt slots and the claims on interfaces and  *)
(* ports (supervisor.go, peerslot.go), the session table every attempt     *)
(* goes through (internal/orchestrator/session.go), and what a worker's    *)
(* attempt does to them, from buildSessionRuntime to Driver.Release.       *)
(*                                                                         *)
(* What the two ends say to each other is module Negotiation's subject:    *)
(* here an attempt goes on or fails.  Time is what the code measures: an   *)
(* entry of the table is fresh until the handshake's deadline has passed,  *)
(* late from then on and, at some time then, old enough for the sweep      *)
(* (staleSessionAge is larger than negotiationBound).                      *)
(***************************************************************************)
EXTENDS Policy, FiniteSets

CONSTANTS
    Config,       \* what the configuration file may say
    Limits,       \* what cfg.Policy.MaxSessions may be when the node starts
    Name,         \* the interface name each peer's key derives
    Offset,       \* the port offset each peer's key derives
    Mobile        \* the peers whose address may change

ASSUME SessionsAssumption ==
    /\ IsFiniteSet(Peer) /\ \A c \in Config : IsConfig(c)
    /\ Limits \subseteq Nat \ {0}
    /\ Offset \in [Peer -> Nat]
    /\ Mobile \subseteq Peer

VARIABLES
    limit,      \* maxSessions and maxAttempting, set once by newSupervisor
    loop,       \* what the service's goroutine is doing
    cfg,        \* the configuration it applied last
    next,       \* the one it is applying
    todo,       \* the peers it has left to stop, or to sweep
    workers,    \* service.workers
    pc,         \* where each peer's worker stands
    conf,       \* the configuration each worker was started with, None without one
    cancelled,  \* whether each worker's context is cancelled
    had,        \* peerWorker.established, with a session it could name
    owed,       \* the peers that had a session when they were stopped
    told,       \* the peers sent a revocation notice
    attempting, \* supervisor.attempting
    slots,      \* supervisor.slots
    table,      \* SessionManager.sessions
    iface       \* the interface each peer's sessions have on the host

serviceVars == <<limit, loop, cfg, next, todo, workers, owed, told>>
workerVars  == <<pc, conf, cancelled, had>>
vars == <<serviceVars, workerVars, attempting, slots, table, iface>>
-----------------------------------------------------------------------------
Address == {"home", "away"}

Elsewhere(address) == CHOOSE a \in Address : a # address

Slot == [name : {Name[p] : p \in Peer}, port : Nat]

(* slotFor: base 0 lets the kernel choose a port.                          *)
SlotFor(c, p) == [name |-> Name[p], port |-> IF c.base = 0 THEN 0 ELSE c.base + Offset[p]]

(* SessionState.  The phases between Begin and the end of Connect are one: *)
(* "open".                                                                 *)
Session == [phase : {"open", "failed", "established"}, age : {"fresh", "late"}, endpoint : Address, roamed : BOOLEAN]

NewSession == [phase |-> "open", age |-> "fresh", endpoint |-> "home", roamed |-> FALSE]

(* keyed: the kernel has the private key of the session; at: where it      *)
(* reaches the peer.                                                       *)
Interface == [port : Nat, keyed : BOOLEAN, at : Address]

(* None stands for nil, or for a key a map does not have.                  *)
ASSUME NoneAssumption == None \notin Slot /\ None \notin Session

(* Where attempt() is between BeginAttempt and EndAttempt.                 *)
Attempting == {"build", "connect", "open", "applied", "enter", "hold", "roam", "release"}

Holding == {"hold", "roam"}

TypeOK ==
    /\ loop \in {"idle", "stop", "wait", "sweep", "quit", "down"}
    /\ cfg \in Config /\ next \in Config
    /\ \A S \in {todo, workers, owed, told} : S \subseteq Peer
    /\ pc \in [Peer -> {"off", "ready", "backoff", "exited"} \cup Attempting]
    /\ conf \in [Peer -> Config \cup {None}]
    /\ cancelled \in [Peer -> BOOLEAN] /\ had \in [Peer -> BOOLEAN]
    /\ limit \in Limits /\ attempting \in Nat
    /\ slots \in [Peer -> Slot \cup {None}]
    /\ table \in [Peer -> Session \cup {None}]
    /\ iface \in [Peer -> Interface \cup {None}]

(* The service has recovered the host and goes on to apply its             *)
(* configuration.                                                          *)
Init ==
    /\ limit \in Limits /\ cfg \in Config /\ next = cfg
    /\ loop = "stop" /\ todo = {} /\ workers = {} /\ owed = {} /\ told = {}
    /\ pc = [p \in Peer |-> "off"]
    /\ conf = [p \in Peer |-> None]
    /\ cancelled = [p \in Peer |-> FALSE]
    /\ had = [p \in Peer |-> FALSE]
    /\ attempting = 0
    /\ slots = [p \in Peer |-> None]
    /\ table = [p \in Peer |-> None]
    /\ iface = [p \in Peer |-> None]
-----------------------------------------------------------------------------
(* The service.                                                            *)

(* SIGHUP with a configuration that is valid; any other is discarded.      *)
Reload(c) ==
    /\ loop = "idle"
    /\ loop' = "stop" /\ next' = c
    /\ todo' = workers \ SessionPeers(c)
    /\ UNCHANGED <<limit, cfg, workers, owed, told, workerVars, attempting, slots, table, iface>>

\* Mutant: a revoked worker is cancelled and not waited for.
StopAndGoOn(p) ==
    /\ loop = "stop" /\ p \in todo /\ p \in workers
    /\ todo' = todo \ {p} /\ workers' = workers \ {p}
    /\ cancelled' = [cancelled EXCEPT ![p] = TRUE]
    /\ UNCHANGED <<limit, loop, cfg, next, owed, told, pc, conf, had, attempting, slots, table, iface>>

\* Mutant: a revoked worker is waited for and not cancelled.
StopAndWait(p) ==
    /\ loop = "stop" /\ p \in todo /\ p \in workers
    /\ loop' = "wait" /\ workers' = workers \ {p}
    /\ owed' = IF had[p] THEN owed \cup {p} ELSE owed
    /\ UNCHANGED <<limit, cfg, next, todo, told, workerVars, attempting, slots, table, iface>>

(* stop: deregister, see whether there was a session, cancel; then wait    *)
(* for the worker.                                                         *)
Stop(p) ==
    /\ loop = "stop" /\ p \in todo /\ p \in workers
    /\ loop' = "wait" /\ workers' = workers \ {p}
    /\ cancelled' = [cancelled EXCEPT ![p] = TRUE]
    /\ owed' = IF had[p] THEN owed \cup {p} ELSE owed
    /\ UNCHANGED <<limit, cfg, next, todo, told, pc, conf, had, attempting, slots, table, iface>>

(* <-worker.done, and notifyRevoked: only a peer that had a session.       *)
Stopped(p) ==
    /\ loop = "wait" /\ p \in todo \ workers /\ pc[p] = "exited"
    /\ loop' = "stop" /\ todo' = todo \ {p}
    /\ owed' = owed \ {p} /\ told' = told \cup (owed \cap {p})
    /\ pc' = [pc EXCEPT ![p] = "off"]
    /\ conf' = [conf EXCEPT ![p] = None]
    /\ cancelled' = [cancelled EXCEPT ![p] = FALSE]
    /\ had' = [had EXCEPT ![p] = FALSE]
    /\ UNCHANGED <<limit, cfg, next, workers, attempting, slots, table, iface>>

(* The rest of reconcile, and reload's last line.  A worker that is        *)
(* running keeps the configuration it was started with.                    *)
StartNew ==
    LET new == SessionPeers(next) \ workers
    IN  /\ loop = "stop" /\ todo = {}
        /\ loop' = "idle" /\ cfg' = next
        /\ workers' = workers \cup new
        /\ pc' = [p \in Peer |-> IF p \in new THEN "ready" ELSE pc[p]]
        /\ conf' = [p \in Peer |-> IF p \in new THEN next ELSE conf[p]]
        /\ told' = told \ new
        /\ UNCHANGED <<limit, next, todo, owed, cancelled, had, attempting, slots, table, iface>>

\* Mutant: only negotiations are swept.
StaleOpen(p) == table[p] # None /\ table[p].phase = "open" /\ table[p].age = "late"

Stale(p) == table[p] # None /\ table[p].phase # "established" /\ table[p].age = "late"

(* ExpireStaleSessions: the list is taken first.                           *)
Sweep ==
    /\ loop = "idle"
    /\ \E p \in Peer : Stale(p)
    /\ loop' = "sweep" /\ todo' = {p \in Peer : Stale(p)}
    /\ UNCHANGED <<limit, cfg, next, workers, owed, told, workerVars, attempting, slots, table, iface>>

(* Then each peer on it is closed, whatever its session has become.        *)
SweepOne(p) ==
    /\ loop = "sweep" /\ p \in todo
    /\ todo' = todo \ {p}
    /\ loop' = IF todo' = {} THEN "idle" ELSE "sweep"
    /\ table' = [table EXCEPT ![p] = None]
    /\ UNCHANGED <<limit, cfg, next, workers, owed, told, workerVars, attempting, slots, iface>>

(* SIGTERM: every worker is cancelled and waited for.                      *)
Quit ==
    /\ loop = "idle"
    /\ loop' = "quit" /\ workers' = {}
    /\ cancelled' = [p \in Peer |-> cancelled[p] \/ p \in workers]
    /\ UNCHANGED <<limit, cfg, next, todo, owed, told, pc, conf, had, attempting, slots, table, iface>>

QuitDone ==
    /\ loop = "quit" /\ \A p \in Peer : pc[p] \in {"off", "exited"}
    /\ loop' = "down"
    /\ UNCHANGED <<limit, cfg, next, todo, workers, owed, told, workerVars, attempting, slots, table, iface>>
-----------------------------------------------------------------------------
(* A worker.                                                               *)

Goto(p, step) == pc' = [pc EXCEPT ![p] = step]

WorkerOnly == UNCHANGED <<serviceVars, conf, cancelled>>

(* run sees its context cancelled, between attempts or in the pause.       *)
Exit(p) ==
    /\ pc[p] \in {"ready", "backoff"} /\ cancelled[p]
    /\ Goto(p, "exited")
    /\ WorkerOnly /\ UNCHANGED <<had, attempting, slots, table, iface>>

(* retryDelay has passed.                                                  *)
Retry(p) ==
    /\ pc[p] = "backoff" /\ Goto(p, "ready")
    /\ WorkerOnly /\ UNCHANGED <<had, attempting, slots, table, iface>>

(* BeginAttempt refuses rather than queue.                                 *)
BeginAttempt(p) ==
    LET free == attempting < limit
    IN  /\ pc[p] = "ready" /\ ~cancelled[p]
        /\ Goto(p, IF free THEN "build" ELSE "backoff")
        /\ attempting' = IF free THEN attempting + 1 ELSE attempting
        /\ WorkerOnly /\ UNCHANGED <<had, slots, table, iface>>

\* Mutant: an attempt that does not get as far as a session keeps its slot.
EndAttemptLate(p) ==
    /\ Goto(p, "backoff")
    /\ attempting' = IF table[p] # None THEN attempting - 1 ELSE attempting
    /\ WorkerOnly

(* The attempt returns: EndAttempt, and run goes into its pause.           *)
EndAttempt(p) ==
    /\ Goto(p, "backoff")
    /\ attempting' = IF attempting > 0 THEN attempting - 1 ELSE 0
    /\ WorkerOnly

\* Mutant: only the interface's name is compared.
ClashesByName(s, t) == s.name = t.name

Clashes(s, t) == s.name = t.name \/ (s.port = t.port /\ s.port # 0)

(* Claim: a slot once claimed is the peer's, whatever is asked for later.  *)
Claimable(p) ==
    \/ slots[p] # None
    \/ \A q \in Peer \ {p} : slots[q] # None => ~Clashes(SlotFor(conf[p], p), slots[q])

ClaimRefused(p) ==
    /\ pc[p] = "build" /\ ~Claimable(p)
    /\ EndAttempt(p)
    /\ UNCHANGED <<had, slots, table, iface>>

(* The port is this attempt's to bind: no interface has it.                *)
Bindable(slot) == slot.port = 0 \/ \A q \in Peer : iface[q] # None => iface[q].port # slot.port

(* The rest of buildSessionRuntime.  Any part of it may fail, and what was *)
(* opened is released; the claim stays.                                    *)
Build(p) ==
    /\ pc[p] = "build" /\ Claimable(p)
    /\ slots' = [slots EXCEPT ![p] = IF @ = None THEN SlotFor(conf[p], p) ELSE @]
    /\ \/ /\ Bindable(slots'[p]) /\ Goto(p, "connect")
          /\ WorkerOnly /\ UNCHANGED attempting
       \/ EndAttempt(p)
    /\ UNCHANGED <<had, table, iface>>

(* Begin: a peer's own failed session does not stand in its way, but is    *)
(* counted.                                                                *)
CanBegin(p) ==
    /\ table[p] # None => table[p].phase = "failed"
    /\ Cardinality({q \in Peer : table[q] # None}) < limit

(* Connect up to Begin: the peer is authorized, and a responder has been   *)
(* called.                                                                 *)
Begin(p) ==
    /\ pc[p] = "connect" /\ Check(conf[p], p, "session") /\ CanBegin(p)
    /\ Goto(p, "open")
    /\ table' = [table EXCEPT ![p] = NewSession]
    /\ WorkerOnly /\ UNCHANGED <<had, attempting, slots, iface>>

(* Unauthorized, not called, cancelled, or refused by Begin.               *)
ConnectFails(p) ==
    /\ pc[p] = "connect" /\ EndAttempt(p)
    /\ UNCHANGED <<had, slots, table, iface>>

(* Connect's deferred Fail.                                                *)
Fail(p) == table' = [table EXCEPT ![p] = IF @ = None THEN None ELSE [@ EXCEPT !.phase = "failed"]]

(* Negotiation, the path or Apply failed, the context was cancelled, or    *)
(* AdvancePhase missed the entry.  A failed Apply undoes itself.           *)
Abandon(p) ==
    /\ pc[p] = "open" /\ EndAttempt(p) /\ Fail(p)
    /\ UNCHANGED <<had, slots, iface>>

(* RecordEndpoint and establish, up to the end of Apply.                   *)
Configure(p) ==
    /\ pc[p] = "open" /\ table[p] # None
    /\ Goto(p, "applied")
    /\ iface' = [iface EXCEPT ![p] =
            [port |-> slots[p].port, keyed |-> TRUE, at |-> table[p].endpoint]]
    /\ WorkerOnly /\ UNCHANGED <<had, attempting, slots, table>>

(* Nothing removes the interface where an entry is missing or the          *)
(* handshake's deadline has passed.                                        *)
Unconfirmed(p) ==
    /\ pc[p] = "applied" /\ (table[p] # None => table[p].age # "fresh")
    /\ EndAttempt(p) /\ Fail(p)
    /\ UNCHANGED <<had, slots, iface>>

(* awaitHandshake gave up; removing the interface may fail.                *)
VerifyFails(p) ==
    /\ pc[p] = "applied" /\ table[p] # None
    /\ EndAttempt(p) /\ Fail(p)
    /\ iface' \in {iface, [iface EXCEPT ![p] = None]}
    /\ UNCHANGED <<had, slots>>

(* ConfirmEstablished and AdvancePhase.                                    *)
Establish(p) ==
    /\ pc[p] = "applied" /\ table[p] # None /\ table[p].age = "fresh"
    /\ Goto(p, "enter")
    /\ table' = [table EXCEPT ![p].phase = "established"]
    /\ WorkerOnly /\ UNCHANGED <<had, attempting, slots, iface>>

(* recordEstablished and recordSession, which needs the entry; Hold begins *)
(* by looking its session up, and does not do so again.                    *)
EnterHold(p) ==
    /\ pc[p] = "enter"
    /\ Goto(p, IF table[p] # None /\ table[p].phase = "established" THEN "hold" ELSE "release")
    /\ had' = [had EXCEPT ![p] = @ \/ table[p] # None]
    /\ WorkerOnly /\ UNCHANGED <<attempting, slots, table, iface>>

(* Hold ends: the context is cancelled, ...                                *)
HoldCancelled(p) ==
    /\ pc[p] = "hold" /\ cancelled[p] /\ Goto(p, "release")
    /\ WorkerOnly /\ UNCHANGED <<had, attempting, slots, table, iface>>

(* ... or the session is dropped: stale, gone, or not to be observed.      *)
HoldDropped(p) ==
    /\ pc[p] = "hold" /\ ~cancelled[p] /\ Goto(p, "release")
    /\ WorkerOnly /\ UNCHANGED <<had, attempting, slots, table, iface>>

(* Driver.Release: the entry goes even if the interface does not.          *)
Release(p) ==
    /\ pc[p] = "release" /\ EndAttempt(p)
    /\ iface' \in {iface, [iface EXCEPT ![p] = None]}
    /\ table' = [table EXCEPT ![p] = None]
    /\ UNCHANGED <<had, slots>>
-----------------------------------------------------------------------------
(* Roaming.                                                                *)

(* External: a packet the kernel authenticated came from elsewhere.        *)
Move(p) ==
    /\ p \in Mobile /\ pc[p] \in Holding /\ iface[p] # None
    /\ iface' = [iface EXCEPT ![p].at = Elsewhere(@)]
    /\ UNCHANGED <<serviceVars, workerVars, attempting, slots, table>>

\* Mutant: every move is followed.
FollowsAll(p) == table[p].phase = "established"

(* applyEndpointChange's locked part: minRoamInterval.                     *)
MayFollow(p) == table[p].phase = "established" /\ ~table[p].roamed

(* followRoam: the kernel's endpoint is not the one on record.             *)
FollowRoam(p) ==
    /\ pc[p] = "hold" /\ iface[p] # None /\ table[p] # None
    /\ table[p].endpoint # iface[p].at /\ MayFollow(p)
    /\ Goto(p, "roam")
    /\ WorkerOnly /\ UNCHANGED <<had, attempting, slots, table, iface>>

\* Mutant: an observation without an endpoint is recorded.
RecordNil(state) == [state EXCEPT !.endpoint = None, !.roamed = TRUE]

(* applyEndpointChange after applyRoam.                                    *)
RecordMove(state) ==
    [state EXCEPT !.endpoint = Elsewhere(@), !.roamed = TRUE]

(* applyRoam: the interface is applied from an observation, which has no   *)
(* private key; configureDevice writes a zero key, which the kernel takes  *)
(* as its removal.  Applying may fail.  Where the entry has gone since the *)
(* lock was dropped the record goes nowhere; the address was either's.     *)
Roam(p) ==
    /\ pc[p] = "roam" /\ Goto(p, "hold")
    /\ \/ UNCHANGED <<table, iface>>
       \/ /\ iface[p] # None
          /\ table' = [table EXCEPT ![p] = IF @ = None THEN None ELSE RecordMove(@)]
          /\ \E a \in Address :
                /\ table[p] # None => a # table[p].endpoint
                /\ iface' = [iface EXCEPT ![p] = [@ EXCEPT !.keyed = FALSE, !.at = a]]
    /\ WorkerOnly /\ UNCHANGED <<had, attempting, slots>>
-----------------------------------------------------------------------------
(* Time passes; the roaming window ends.                                   *)
Age(p) ==
    /\ table[p] # None
    /\ \/ /\ table[p].age = "fresh"
          /\ table' = [table EXCEPT ![p].age = "late"]
       \/ /\ table[p].roamed
          /\ table' = [table EXCEPT ![p].roamed = FALSE]
    /\ UNCHANGED <<serviceVars, workerVars, attempting, slots, iface>>

Service ==
    \/ StartNew \/ QuitDone
    \/ \E p \in Peer : Stop(p) \/ Stopped(p) \/ SweepOne(p)

(* What a worker does of its own accord, or when its waits end.            *)
Worker(p) ==
    \/ Exit(p) \/ Retry(p) \/ BeginAttempt(p) \/ ClaimRefused(p) \/ Build(p)
    \/ Begin(p) \/ ConnectFails(p) \/ Abandon(p) \/ Configure(p)
    \/ Unconfirmed(p) \/ VerifyFails(p) \/ Establish(p) \/ EnterHold(p)
    \/ HoldCancelled(p) \/ Release(p) \/ FollowRoam(p) \/ Roam(p)

Next ==
    \/ Service \/ Sweep \/ Quit \/ \E c \in Config : Reload(c)
    \/ \E p \in Peer : Worker(p) \/ HoldDropped(p) \/ Move(p) \/ Age(p)
    \/ loop = "down" /\ UNCHANGED vars

Spec == Init /\ [][Next]_vars

(* The service's goroutine runs, time passes, and a cancelled context ends *)
(* every wait of a worker, a publication's too.  Nothing is assumed of a   *)
(* worker that is not cancelled: it may wait for a relay's answer for ever.*)
(* Go's select chooses among what is ready at random, so neither signals   *)
(* nor polls keep the sweep's tick or a cancellation unseen.               *)
FairSpec ==
    /\ Spec /\ WF_vars(Service) /\ SF_vars(Sweep)
    /\ \A p \in Peer :
        WF_vars(cancelled[p] /\ Worker(p)) /\ SF_vars(HoldCancelled(p)) /\ WF_vars(Age(p))
-----------------------------------------------------------------------------
(* Every attempt has a slot and every slot an attempt, however attempts    *)
(* end (supervisor.BeginAttempt, EndAttempt).                              *)
SlotsBalanced ==
    /\ attempting = Cardinality({p \in Peer : pc[p] \in Attempting})
    /\ attempting <= limit

(* Two peers never hold the same interface or the same port, also when     *)
(* their claims were made under different base ports (supervisor.Claim).   *)
ClaimsApart ==
    \A p, q \in Peer :
        (p # q /\ slots[p] # None /\ slots[q] # None) =>
            /\ slots[p].name # slots[q].name
            /\ slots[p].port # slots[q].port \/ slots[p].port = 0

(* Once a reload is over no peer it revoked has a worker or a session in   *)
(* any phase, and a peer is told only after its session is gone (reconcile *)
(* and stop, which wait for the worker).                                   *)
RevokedIsClosed ==
    /\ \A p \in Peer : (loop = "idle" /\ p \notin SessionPeers(cfg)) =>
            pc[p] = "off" /\ p \notin workers
    /\ \A p \in Peer : (p \in told \/ pc[p] = "off") =>
            (table[p] # None => table[p].phase = "failed")

(* A session that is held is in the table as established: the sweep never  *)
(* touches one that came up (the comment of ExpireStaleSessions).  It      *)
(* does: the list was taken before the peer's next session began.          *)
HeldIsListed ==
    \A p \in Peer : pc[p] \in Holding => table[p] # None /\ table[p].phase = "established"

(* The record follows a peer that moves, but not twice within              *)
(* minRoamInterval (applyEndpointChange).                                  *)
RoamsApart ==
    [][\A p \in Peer :
        (/\ pc[p] \in Holding /\ table[p] # None /\ table'[p] # None
         /\ table'[p].endpoint # table[p].endpoint) => ~table[p].roamed]_vars

(* A reload and a shutdown come to an end, whatever the workers they wait  *)
(* for are doing (stop, stopAll).                                          *)
ReloadEnds == loop # "idle" ~> loop \in {"idle", "down"}

(* A peer that is served is again and again admitted by Begin, or has a    *)
(* session under way itself, unless others' that have not failed fill the  *)
(* table: sessions that failed, its own or another's, do not lock it out   *)
(* for good, though a worker may hang (Begin, ExpireStaleSessions).        *)
NeverLockedOut ==
    LET live == {q \in Peer : table[q] # None /\ table[q].phase # "failed"}
    IN  \A p \in Peer : []<>(
            CanBegin(p) \/ p \in live \/ Cardinality(live) >= limit \/ pc[p] \in {"off", "exited"})

(* An interface that carries a held session has the session's private key: *)
(* following a peer that moved restates nothing about it (applyRoam).      *)
RoamKeepsKey ==
    \A p \in Peer : (pc[p] \in Holding /\ iface[p] # None) => iface[p].keyed
-----------------------------------------------------------------------------
(* What the proofs of these properties need besides them.                  *)

(* A worker has the configuration it was started with, and one that has    *)
(* built its runtime the slot it claimed.                                  *)
WorkersEquipped ==
    \A p \in Peer :
        /\ pc[p] # "off" => conf[p] \in Config
        /\ pc[p] \in {"connect", "open"} => slots[p] # None

(* Until the node shuts down every goroutine of a worker is registered or  *)
(* is the one that is waited for.                                          *)
WorkersListed ==
    /\ \A p \in workers : pc[p] # "off"
    /\ loop \in {"idle", "sweep", "stop", "wait"} =>
            \A p \in Peer \ workers : pc[p] = "off" \/ (loop = "wait" /\ p \in todo)
    /\ loop = "stop" => todo \subseteq workers
    /\ loop = "wait" => \A p, q \in todo \ workers : p = q

(* The workers a reload does not stop are those its configuration permits. *)
WorkersPermitted ==
    /\ loop \in {"idle", "sweep"} => workers \subseteq SessionPeers(cfg)
    /\ loop \in {"stop", "wait"} => workers \ todo \subseteq SessionPeers(next)

(* A worker between sessions has left at most a failed one behind, and the *)
(* peers that were told have no worker.                                    *)
NothingOpen ==
    /\ \A p \in Peer : pc[p] \in {"off", "ready", "backoff", "exited", "build", "connect"} =>
            (table[p] # None => table[p].phase = "failed")
    /\ \A p \in told : pc[p] = "off"

(* The entry of a session that is held is its own, if it still has one.    *)
HeldIsOwn ==
    \A p \in Peer : pc[p] \in Holding => (table[p] # None => table[p].phase = "established")

(* A move that is being followed was admitted by minRoamInterval, and no   *)
(* other move is recorded before it is.                                    *)
RoamAdmitted == \A p \in Peer : (pc[p] = "roam" /\ table[p] # None) => ~table[p].roamed

SessionsInv ==
    /\ TypeOK /\ WorkersEquipped /\ WorkersListed /\ WorkersPermitted /\ NothingOpen
    /\ SlotsBalanced /\ ClaimsApart /\ HeldIsOwn /\ RoamAdmitted
=============================================================================
